---- MODULE Spec2Model ----
(***************************************************************************)
(* Module orchestration of the allpix framework: ModuleManager::load with  *)
(* its priority-based conflict resolution, the phased lifecycle driven by  *)
(* main() (load, init, run, finalize), and the delegates the instantiated  *)
(* modules hold on the Messenger.                                          *)
(***************************************************************************)
EXTENDS Integers, Sequences, FiniteSets, TLC

\* ------------------------------------------------------------------ bounds
MaxSections == 3
MaxDetectors == 2
MaxNames == 2
MaxTypes == 1
MaxEvents == 2
LifeSections == 2
MaxDelegates == 3
MaxDispatches == 2
MaxBinds == 2
MaxRemoved == 1
MaxLineLen == 3
MaxLines == 3
MaxDim == 2
MaxVertices == 4
MaxWrites == 1
MaxEdits == 1
MaxGets == 2

\* ------------------------------------------------------- program constants
\* ModuleIdentifier(moduleName, "", 0) in createModules
PriorityUnique == 0
\* ModuleIdentifier(moduleName, det->getName(), 1) for the "name" array
PriorityName == 1
\* ModuleIdentifier(moduleName, det->getName(), 2) for the "type" array
PriorityType == 2
\* ModuleIdentifier(moduleName, det->getName(), 0) for all detectors
PriorityAll == 0
\* global_config_.get<unsigned int>("number_of_events", 1u)
DefaultEvents == 1

\* ------------------------------------------------------------- environment
\* The detectors the geometry can hold, in the order of the geometry manager.
Catalogue ==
    << [name |-> "D1", type |-> "T"], [name |-> "D2", type |-> "U"],
       [name |-> "D3", type |-> "T"], [name |-> "D4", type |-> "U"] >>

\* The plugins: unique() of library A returns true, of library B false.
ModuleNames == {"A", "B"}
UniqueFunction(name) == name = "A"

\* What dlsym finds in a library.
SymbolTables == [unique : BOOLEAN, generator : BOOLEAN]

NoError == [type |-> "none", what |-> ""]

\* ----------------------------------------------------------------- helpers
SeqsUpTo(S, n) == UNION {[1..k -> S] : k \in 1..n}

Range(s) == {s[i] : i \in DOMAIN s}

RECURSIVE Flatten(_)
Flatten(ss) == IF ss = <<>> THEN <<>> ELSE Head(ss) \o Flatten(Tail(ss))

Last(s) == s[Len(s)]

\* A section of the configuration: its name, and the "name" and "type" arrays
\* when the keys are present (conf.has).
SectionsOf(g) ==
    LET dets == {g[i].name : i \in DOMAIN g}
        types == {g[i].type : i \in DOMAIN g}
        keyed == [name : ModuleNames, has_name : {TRUE}, names : SeqsUpTo(dets, MaxNames),
                  has_type : {TRUE}, types : SeqsUpTo(types, MaxTypes)]
        named == [name : ModuleNames, has_name : {TRUE}, names : SeqsUpTo(dets, MaxNames),
                  has_type : {FALSE}, types : {<<>>}]
        typed == [name : ModuleNames, has_name : {FALSE}, names : {<<>>},
                  has_type : {TRUE}, types : SeqsUpTo(types, MaxTypes)]
        plain == [name : ModuleNames, has_name : {FALSE}, names : {<<>>},
                  has_type : {FALSE}, types : {<<>>}]
    IN  keyed \cup named \cup typed \cup plain

\* The unnamed section at the head of a configuration file.
Header == [name |-> "", has_name |-> FALSE, names |-> <<>>, has_type |-> FALSE, types |-> <<>>]

Geometries == {SubSeq(Catalogue, 1, n) : n \in 1..MaxDetectors}

VARIABLES
    geo,                \* GeometryManager: the detectors, in order
    nsections,          \* size of conf_manager->getConfigurations()
    configs,            \* its sections, up to the one load has reached
    pc,                 \* position of main() / ModuleManager::load
    sec,                \* index of the section load is processing
    loadedLibraries_,   \* library name -> handle (its symbol table)
    unique,             \* load's local: result of the unique() probe
    mod_list,           \* load's local: pairs still to be placed
    heap,               \* every Module ever constructed, by pointer
    modules_,           \* list of owned modules, execution order
    id_to_module_,      \* set of <<identifier, module>> (map by key)
    module_to_id_,      \* set of <<module, identifier>>
    delegates_,         \* Messenger: registered delegates, registration order
    exception,          \* the exception in flight / caught by main
    return_code,        \* main's return code
    number_of_events,   \* the key of the global config: << >> or << n >>
    event,              \* run's loop counter i
    pos,                \* position of the phase loop in modules_
    log_section,        \* Log::getSection()
    calls,              \* history: lifecycle hooks invoked, in order
    produced,           \* history: pairs returned by the create functions
    inserted,           \* history: modules inserted in modules_, in order
    dlopen_calls,       \* history: the dlopen calls made, with their outcome
    registered,         \* history: the delegates handed to the Messenger
    dispatched,         \* history: the dispatches: the message, the delegates
                        \* registered and removed before it, those it invoked
    slots,              \* per delegate: the messages its module holds through it
    removed,            \* history: the delegates removed from the Messenger
    has_receiver,       \* history: the last hasReceiver call and its result
    line,               \* ConfigReader::add: the line read last
    line_num,           \* ConfigReader::add: the number of lines read
    seen,               \* history: the lines read that were not skipped
    section_conf,       \* ConfigReader::add: conf, the section being filled
    reader,             \* a ConfigReader: conf_array_ and conf_map_
    reader_copy,        \* the ConfigReader copied from it, when there is one
    files,              \* the field files on disk, by canonical name
    N_,                 \* FieldParser / FieldWriter: values per field point
    div_traps,          \* the build: an integer division by zero traps
    field_map_,         \* FieldParser: the cache, by file name
    parse_init,         \* parse_init_file: its locals while it runs
    stream,             \* parse_init_file: the tokens of the file not yet read
    parse_log,          \* history: the get_by_file_name calls that returned
    particle_energy,    \* DepositionBichselModule::run: the source energy drawn
    particle_type_,     \* DepositionBichselModule: the configured particle type
    global_particles,   \* run: the particles still to be followed
    detector,           \* run: the detector the particle enters
    incoming,           \* stepping: the particles still to be stepped
    particle,           \* stepping: the particle being stepped
    nscat,              \* stepping: the elastic scatterings counted
    mcparticles,        \* stepping: the MCParticles stored
    mcparticles_parent_id, \* stepping: their parent ids
    clusters,           \* stepping: the charge clusters stored
    outgoing,           \* stepping: the particles that left the sensor
    taken,              \* history: the particles taken from incoming, in order
    steppings,          \* history: the stepping calls of run
    deposits            \* history: the messages stepping dispatched

vars == << geo, nsections, configs, pc, sec, loadedLibraries_, unique, mod_list, heap, modules_,
           id_to_module_, module_to_id_, delegates_, exception, return_code,
           number_of_events, event, pos, log_section, calls, produced, inserted,
           dlopen_calls, registered, dispatched, slots, removed, has_receiver,
           line, line_num, seen, section_conf, reader, reader_copy,
           files, N_, div_traps, field_map_, parse_init, stream, parse_log,
           particle_energy, particle_type_, global_particles, detector, incoming,
           particle, nscat, mcparticles, mcparticles_parent_id, clusters, outgoing,
           taken, steppings, deposits >>

\* The objects outside the module manager and the messenger.
readerVars == << line, line_num, seen, section_conf, reader, reader_copy >>
fieldVars == << files, N_, div_traps, field_map_, parse_init, stream, parse_log >>
bichselVars == << particle_energy, particle_type_, global_particles, detector, incoming,
                 particle, nscat, mcparticles, mcparticles_parent_id, clusters, outgoing,
                 taken, steppings, deposits >>
toolVars == << readerVars, fieldVars, bichselVars >>
busVars == << slots, removed, has_receiver, toolVars >>
loadVars == << sec, loadedLibraries_, unique, mod_list, heap, modules_, id_to_module_,
               module_to_id_, delegates_, produced, inserted, dlopen_calls, registered,
               dispatched, busVars >>
lifeVars == << number_of_events, event, pos, log_section, calls >>

\* ------------------------------------------------------------- identifiers
ModuleIdentifier(name, identifier, priority) ==
    [name |-> name, identifier |-> identifier, priority |-> priority]

\* The map order of identifiers: name and identifier, not the priority.
SameKey(a, b) == a.name = b.name /\ a.identifier = b.identifier

\* id_to_module_.find(identifier): the entries with that key.
Find(map, identifier) == {e \in map : SameKey(e[1], identifier)}


\* ---------------------------------------------------------------- geometry
GetDetector(g, name) == CHOOSE d \in Range(g) : d.name = name

GetDetectorsByType(g, type) == SelectSeq(g, LAMBDA d : d.type = type)

GetDetectors(g) == g

\* ------------------------------------------------ createModulesPerDetector
\* "skip all that were already added by name"
AlreadyNamed(moduleNames, det) == det.name \in moduleNames

\* Variant: one missing key is enough.
EitherKeyMissing(conf) == ~conf.has_type \/ ~conf.has_name

\* !conf.has("type") && !conf.has("name")
NoKeys(conf) == ~conf.has_type /\ ~conf.has_name

\* The (identifier, detector) pairs createModulesPerDetector instantiates, in
\* the order it pushes them on moduleList.
PerDetectorRequests(conf, g) ==
    LET moduleNames == IF conf.has_name THEN Range(conf.names) ELSE {}
        byName ==
            IF conf.has_name
            THEN [i \in 1..Len(conf.names) |->
                    LET det == GetDetector(g, conf.names[i])
                    IN  [id |-> ModuleIdentifier(conf.name, det.name, PriorityName),
                         det |-> det.name]]
            ELSE <<>>
        ofType(type) ==
            LET dets == SelectSeq(GetDetectorsByType(g, type),
                                  LAMBDA d : ~AlreadyNamed(moduleNames, d))
            IN  [j \in 1..Len(dets) |->
                    [id |-> ModuleIdentifier(conf.name, dets[j].name, PriorityType),
                     det |-> dets[j].name]]
        byType ==
            IF conf.has_type
            THEN Flatten([i \in 1..Len(conf.types) |-> ofType(conf.types[i])])
            ELSE <<>>
        forAll ==
            IF NoKeys(conf)
            THEN LET dets == GetDetectors(g)
                 IN  [j \in 1..Len(dets) |->
                        [id |-> ModuleIdentifier(conf.name, dets[j].name, PriorityAll),
                         det |-> dets[j].name]]
            ELSE <<>>
    IN  byName \o byType \o forAll

\* Variant: a name key gives the single instance the priority of a named one.
UniqueRequestsKeyed(conf) ==
    << [id |-> ModuleIdentifier(conf.name, "",
                                IF conf.has_name THEN PriorityName ELSE PriorityUnique),
        det |-> ""] >>

\* The single request of createModules.
UniqueRequests(conf) ==
    << [id |-> ModuleIdentifier(conf.name, "", PriorityUnique), det |-> ""] >>

\* Variant: the detector of the new module is not compared.
check_nothing(module, det) == TRUE

\* module->getDetector().get() != detector
check_module_detector(module, det) == module.detector = det

\* ---------------------------------------------------------------- messenger
\* A delegate as the Messenger files it: under the type of the message it
\* listens to and the name of the detector of its module ("" without one).
Delegate(message_type, module, scope, delegate) ==
    [owner |-> module, type |-> message_type, scope |-> scope, id |-> delegate.id,
     kind |-> delegate.kind, flags |-> delegate.flags]

\* The delegate objects of the three registration forms.
ListenerDelegate(id) == [id |-> id, kind |-> "listener", flags |-> "NONE"]
SingleBindDelegate(id, flags) == [id |-> id, kind |-> "single", flags |-> flags]
MultiBindDelegate(id) == [id |-> id, kind |-> "multi", flags |-> "NONE"]

\* Variant: the delegate is filed without the detector name.
add_delegate_unscoped(dels, message_type, module, scope, delegate) ==
    Append(dels, Delegate(message_type, module, "", delegate))

\* Variant: the flags of the delegate are lost, it is filed as ALLOW_OVERWRITE.
add_delegate_overwrite(dels, message_type, module, scope, delegate) ==
    Append(dels, [Delegate(message_type, module, scope, delegate)
                     EXCEPT !.flags = "ALLOW_OVERWRITE"])

\* delegates_[message_type][scope].push_back(delegate)
add_delegate(dels, message_type, module, scope, delegate) ==
    Append(dels, Delegate(message_type, module, scope, delegate))

\* Variant: the delegates of the module stay where they are.
remove_nothing(dels, module) == dels

\* The Module destructor removes the delegates of the module.
remove_delegate(dels, module) == SelectSeq(dels, LAMBDA d : d.owner # module)

\* ------------------------------------------------------------------- load
\* The modules the generator constructs for reqs[1..n]; the one at index bad
\* (if any) does not forward its detector to the base class.
Construct(reqs, n, bad) ==
    [i \in 1..n |-> [id |-> reqs[i].id,
                     detector |-> IF i = bad THEN "none" ELSE reqs[i].det,
                     section |-> sec,
                     destroyed |-> FALSE]]

\* Each module binds one delegate for messages of type "M" in its constructor,
\* scoped to its detector.
RECURSIVE BindAll(_, _, _, _)
BindAll(dels, reqs, base, i) ==
    IF i > Len(reqs) THEN dels
    ELSE BindAll(add_delegate(dels, "M", base + i, reqs[i].det,
                              ListenerDelegate(Len(registered) + i)),
                 reqs, base, i + 1)

\* The delegates the modules of reqs hand to the Messenger.
Bound(reqs, base) ==
    [i \in 1..Len(reqs) |->
        Delegate("M", base + i, reqs[i].det, ListenerDelegate(Len(registered) + i))]

\* Variant: a held entry is replaced whatever its priority.
ReplacesAlways(old, new) == TRUE

\* Variants of the comparisons below, as a slip in the code would write them.
ReplacesOrEqual(old, new) == old.priority >= new.priority
ReplacesLower(old, new) == old.priority < new.priority
AmbiguousOrLower(old, new) == old.priority <= new.priority

\* iter->first.getPriority() > identifier.getPriority()
Replaces(old, new) == old.priority > new.priority

\* iter->first.getPriority() == identifier.getPriority()
Ambiguous(old, new) == old.priority = new.priority

\* Variant: the exception does not carry the name it was built with.
ThrowUnnamed(type, what) ==
    /\ exception' = [type |-> type, what |-> ""]
    /\ pc' = "catch"

\* Variant: the exception is rethrown as a generic one.
ThrowWrapped(type, what) ==
    /\ exception' = [type |-> "std::exception", what |-> what]
    /\ pc' = "catch"

Throw(type, what) ==
    /\ exception' = [type |-> type, what |-> what]
    /\ pc' = "catch"

Conf == configs[sec]

\* Variant: the cache of libraries is not consulted.
NeverLoaded(libs, libName) == FALSE

\* loadedLibraries_.count(libName) != 0
IsLoaded(libs, libName) == libName \in DOMAIN libs

\* Variant: the result of dlerror is not looked at.
dlsym_unchecked(lib, symbol) == TRUE

\* dlsym(lib, symbol) found the symbol: dlerror() returns NULL
dlsym(lib, symbol) == lib[symbol]

\* The sections position i of the configuration can hold: the unnamed header
\* section comes first, if at all.
SectionAt(i) == SectionsOf(geo) \cup (IF i = 1 THEN {Header} ELSE {})

\* for(auto& conf : configs): the empty config is ignored
SkipEmptyConf ==
    /\ pc = "load" /\ sec <= nsections
    /\ \E conf \in SectionAt(sec) :
         /\ conf.name = ""
         /\ configs' = Append(configs, conf)
    /\ sec' = sec + 1
    /\ UNCHANGED << geo, nsections, pc, loadedLibraries_, unique, mod_list, heap, modules_,
                    id_to_module_, module_to_id_, delegates_, exception, return_code,
                    produced, inserted >>
    /\ UNCHANGED lifeVars
    /\ UNCHANGED << dlopen_calls, registered, dispatched >>
    /\ UNCHANGED busVars

\* dlopen of the library of the section, unless it is loaded already
LoadLibrary ==
    /\ pc = "load" /\ sec <= nsections
    /\ \E conf \in SectionAt(sec) :
         /\ conf.name # ""
         /\ configs' = Append(configs, conf)
         /\ IF IsLoaded(loadedLibraries_, conf.name)
            THEN /\ pc' = "probe"
                 /\ UNCHANGED << loadedLibraries_, exception, dlopen_calls >>
            ELSE \/ /\ Throw("DynamicLibraryError", conf.name)
                    /\ dlopen_calls' = Append(dlopen_calls, [name |-> conf.name, lib |-> << >>])
                    /\ UNCHANGED loadedLibraries_
                 \/ \E lib \in SymbolTables :
                      /\ loadedLibraries_' =
                             [n \in DOMAIN loadedLibraries_ \cup {conf.name} |->
                                 IF n = conf.name THEN lib ELSE loadedLibraries_[n]]
                      /\ dlopen_calls' =
                             Append(dlopen_calls, [name |-> conf.name, lib |-> << lib >>])
                      /\ pc' = "probe"
                      /\ UNCHANGED exception
    /\ UNCHANGED << geo, nsections, sec, unique, mod_list, heap, modules_, id_to_module_,
                    module_to_id_, delegates_, return_code, produced, inserted >>
    /\ UNCHANGED lifeVars
    /\ UNCHANGED << registered, dispatched >>
    /\ UNCHANGED busVars

\* dlsym(lib, "unique") and the call of unique()
ProbeUnique ==
    /\ pc = "probe"
    /\ IF ~dlsym(loadedLibraries_[Conf.name], "unique")
       THEN /\ Throw("DynamicLibraryError", Conf.name)
            /\ UNCHANGED unique
       ELSE /\ unique' = UniqueFunction(Conf.name)
            /\ pc' = "create"
            /\ UNCHANGED exception
    /\ UNCHANGED << geo, nsections, configs, sec, loadedLibraries_, mod_list, heap, modules_,
                    id_to_module_, module_to_id_, delegates_, return_code, produced,
                    inserted >>
    /\ UNCHANGED lifeVars
    /\ UNCHANGED << dlopen_calls, registered, dispatched >>
    /\ UNCHANGED busVars

\* The pairs of a returned moduleList, pointing at the modules just constructed.
Pairs(reqs, base) == [i \in 1..Len(reqs) |-> << reqs[i].id, base + i >>]

\* mod_list = createModules(conf, library)
CreateModules ==
    /\ pc = "create" /\ unique
    /\ IF ~dlsym(loadedLibraries_[Conf.name], "generator")
       THEN /\ Throw("DynamicLibraryError", Conf.name)
            /\ UNCHANGED << mod_list, heap, delegates_, produced, registered >>
       ELSE LET reqs == UniqueRequests(Conf)
                base == Len(heap)
            IN  /\ heap' = heap \o Construct(reqs, Len(reqs), 0)
                /\ delegates_' = BindAll(delegates_, reqs, base, 1)
                /\ registered' = registered \o Bound(reqs, base)
                /\ mod_list' = Pairs(reqs, base)
                /\ produced' = produced \o Pairs(reqs, base)
                /\ pc' = "place"
                /\ UNCHANGED exception
    /\ UNCHANGED << geo, nsections, configs, sec, loadedLibraries_, unique, modules_, id_to_module_,
                    module_to_id_, return_code, inserted >>
    /\ UNCHANGED lifeVars
    /\ UNCHANGED << dlopen_calls, dispatched >>
    /\ UNCHANGED busVars

\* mod_list = createModulesPerDetector(conf, library)
CreateModulesPerDetector ==
    /\ pc = "create" /\ ~unique
    /\ IF ~dlsym(loadedLibraries_[Conf.name], "generator")
       THEN /\ Throw("DynamicLibraryError", Conf.name)
            /\ UNCHANGED << mod_list, heap, delegates_, produced, registered >>
       ELSE LET reqs == PerDetectorRequests(Conf, geo)
                base == Len(heap)
            IN  \E bad \in 0..Len(reqs) :
                  LET made == Construct(reqs, Len(reqs), bad)
                      failing == {i \in 1..Len(reqs) :
                                    ~check_module_detector(made[i], reqs[i].det)}
                  IN  IF failing = {}
                      THEN /\ heap' = heap \o made
                           /\ delegates_' = BindAll(delegates_, reqs, base, 1)
                           /\ registered' = registered \o Bound(reqs, base)
                           /\ mod_list' = Pairs(reqs, base)
                           /\ produced' = produced \o Pairs(reqs, base)
                           /\ pc' = "place"
                           /\ UNCHANGED exception
                      ELSE LET n == CHOOSE i \in failing : \A j \in failing : i <= j
                           IN  /\ heap' = heap \o SubSeq(made, 1, n)
                               /\ delegates_' =
                                     BindAll(delegates_, SubSeq(reqs, 1, n), base, 1)
                               /\ registered' = registered \o Bound(SubSeq(reqs, 1, n), base)
                               /\ Throw("InvalidModuleStateException", Conf.name)
                               /\ UNCHANGED << mod_list, produced >>
    /\ UNCHANGED << geo, nsections, configs, sec, loadedLibraries_, unique, modules_, id_to_module_,
                    module_to_id_, return_code, inserted >>
    /\ UNCHANGED lifeVars
    /\ UNCHANGED << dlopen_calls, dispatched >>
    /\ UNCHANGED busVars

\* modules_.emplace_back; id_to_module_[identifier] = --modules_.end();
\* module_to_id_.emplace(modules_.back().get(), identifier)
EmplaceFront(list, mod) == << mod >> \o list
EmplaceBeforeLast(list, mod) ==
    IF list = << >> THEN << mod >>
    ELSE SubSeq(list, 1, Len(list) - 1) \o << mod, list[Len(list)] >>
EmplaceBack(list, mod) == Append(list, mod)

\* Variant: the new module gets no entry in module_to_id_.
InsertUnmapped(list, idmap, modmap, identifier, mod) ==
    /\ modules_' = EmplaceBack(list, mod)
    /\ id_to_module_' = {e \in idmap : ~SameKey(e[1], identifier)} \cup {<< identifier, mod >>}
    /\ module_to_id_' = modmap
    /\ inserted' = Append(inserted, mod)

Insert(list, idmap, modmap, identifier, mod) ==
    /\ modules_' = EmplaceBack(list, mod)
    /\ id_to_module_' = {e \in idmap : ~SameKey(e[1], identifier)} \cup {<< identifier, mod >>}
    /\ module_to_id_' =
          IF \E e \in modmap : e[1] = mod THEN modmap ELSE modmap \cup {<< mod, identifier >>}
    /\ inserted' = Append(inserted, mod)

\* no entry with the key of the identifier: insert the new module
InsertModule ==
    LET identifier == Head(mod_list)[1]
        mod == Head(mod_list)[2]
    IN  /\ Find(id_to_module_, identifier) = {}
        /\ Insert(modules_, id_to_module_, module_to_id_, identifier, mod)
        /\ mod_list' = Tail(mod_list)
        /\ UNCHANGED << pc, heap, delegates_, exception >>

\* an entry the new instance replaces: erase it from the three containers
\* (modules_.erase destroys the module it owns), then insert the new module
ReplaceModule ==
    LET identifier == Head(mod_list)[1]
        mod == Head(mod_list)[2]
        found == Find(id_to_module_, identifier)
    IN  /\ found # {}
        /\ LET iter == CHOOSE e \in found : TRUE
               old == iter[2]
           IN  /\ Replaces(iter[1], identifier)
               /\ Insert(SelectSeq(modules_, LAMBDA m : m # old),
                         id_to_module_ \ {e \in id_to_module_ : SameKey(e[1], iter[1])},
                         {e \in module_to_id_ : e[1] # old},
                         identifier, mod)
               /\ heap' = [heap EXCEPT ![old].destroyed = TRUE]
               /\ delegates_' = remove_delegate(delegates_, old)
        /\ mod_list' = Tail(mod_list)
        /\ UNCHANGED << pc, exception >>

\* an entry of equal priority: throw AmbiguousInstantiationError
AmbiguousModule ==
    LET identifier == Head(mod_list)[1]
        found == Find(id_to_module_, identifier)
    IN  /\ found # {}
        /\ LET iter == CHOOSE e \in found : TRUE
           IN  /\ ~Replaces(iter[1], identifier)
               /\ Ambiguous(iter[1], identifier)
        /\ Throw("AmbiguousInstantiationError", Conf.name)
        /\ UNCHANGED << mod_list, heap, modules_, id_to_module_, module_to_id_,
                        delegates_, inserted >>

\* "priority is lower just ignore": the new module is dropped from the loop,
\* nothing deletes it
IgnoreModule ==
    LET identifier == Head(mod_list)[1]
        found == Find(id_to_module_, identifier)
    IN  /\ found # {}
        /\ LET iter == CHOOSE e \in found : TRUE
           IN  /\ ~Replaces(iter[1], identifier)
               /\ ~Ambiguous(iter[1], identifier)
        /\ mod_list' = Tail(mod_list)
        /\ UNCHANGED << pc, heap, modules_, id_to_module_, module_to_id_, delegates_,
                        exception, inserted >>

\* one iteration of for(auto& id_mod : mod_list)
PlaceModule ==
    /\ pc = "place" /\ mod_list # <<>>
    /\ \/ InsertModule
       \/ ReplaceModule
       \/ AmbiguousModule
       \/ IgnoreModule
    /\ UNCHANGED << geo, nsections, configs, sec, loadedLibraries_, unique, return_code, produced >>
    /\ UNCHANGED lifeVars
    /\ UNCHANGED << dlopen_calls, registered, dispatched >>
    /\ UNCHANGED busVars

\* mod_list.clear() and the next section
EndSection ==
    /\ pc = "place" /\ mod_list = <<>>
    /\ sec' = sec + 1
    /\ pc' = "load"
    /\ UNCHANGED << geo, nsections, configs, loadedLibraries_, unique, mod_list, heap, modules_,
                    id_to_module_, module_to_id_, delegates_, exception, return_code,
                    produced, inserted >>
    /\ UNCHANGED lifeVars
    /\ UNCHANGED << dlopen_calls, registered, dispatched >>
    /\ UNCHANGED busVars

\* load returns to main, which calls init
LoadReturn ==
    /\ pc = "load" /\ sec > nsections
    /\ pc' = "init"
    /\ pos' = 1
    /\ UNCHANGED << geo, nsections, configs, exception, return_code, number_of_events, event,
                    log_section, calls >>
    /\ UNCHANGED loadVars

\* Variant: the catch clauses leave the return code as it is.
MainCatchSilent ==
    /\ pc = "catch"
    /\ pc' = "done"
    /\ UNCHANGED << geo, nsections, configs, exception, return_code >>
    /\ UNCHANGED loadVars
    /\ UNCHANGED lifeVars

\* Variant: the exception is swallowed and main goes on with init.
MainCatchResume ==
    /\ pc = "catch"
    /\ pc' = "init"
    /\ UNCHANGED << geo, nsections, configs, exception, return_code >>
    /\ UNCHANGED loadVars
    /\ UNCHANGED lifeVars

\* one of main's catch clauses
MainCatch ==
    /\ pc = "catch"
    /\ pc' = "done"
    /\ return_code' = IF exception.type \in {"ConfigurationError", "RuntimeError",
                                              "LogicError", "DynamicLibraryError",
                                              "AmbiguousInstantiationError",
                                              "InvalidModuleStateException"}
                      THEN 1 ELSE 127
    /\ UNCHANGED << geo, nsections, configs, exception >>
    /\ UNCHANGED loadVars
    /\ UNCHANGED lifeVars

NextLoad ==
    \/ SkipEmptyConf
    \/ LoadLibrary
    \/ ProbeUnique
    \/ CreateModules
    \/ CreateModulesPerDetector
    \/ PlaceModule
    \/ EndSection
    \/ LoadReturn
    \/ MainCatch

InitCommon ==
    /\ configs = << >>
    /\ sec = 1
    /\ loadedLibraries_ = << >>
    /\ unique = TRUE
    /\ mod_list = << >>
    /\ heap = << >>
    /\ modules_ = << >>
    /\ id_to_module_ = {}
    /\ module_to_id_ = {}
    /\ delegates_ = << >>
    /\ exception = NoError
    /\ return_code = 0
    /\ number_of_events = << >>
    /\ event = 0
    /\ pos = 1
    /\ log_section = << >>
    /\ calls = << >>
    /\ produced = << >>
    /\ inserted = << >>
    /\ dlopen_calls = << >>
    /\ registered = << >>
    /\ dispatched = << >>
    /\ slots = << >>
    /\ removed = {}
    /\ has_receiver = << >>
    /\ line = << >>
    /\ line_num = 0
    /\ seen = << >>
    /\ section_conf = << >>
    /\ reader = << >>
    /\ reader_copy = << >>
    /\ files = << >>
    /\ N_ = 0
    /\ particle_energy = 0
    /\ particle_type_ = "NONE"
    /\ global_particles = << >>
    /\ detector = << >>
    /\ incoming = << >>
    /\ particle = << >>
    /\ nscat = 0
    /\ mcparticles = << >>
    /\ mcparticles_parent_id = << >>
    /\ clusters = << >>
    /\ outgoing = << >>
    /\ taken = << >>
    /\ steppings = << >>
    /\ deposits = << >>
    /\ div_traps = FALSE
    /\ field_map_ = << >>
    /\ parse_init = << >>
    /\ stream = << >>
    /\ parse_log = << >>

\* Any configuration of up to MaxSections sections over any geometry.
InitLoad ==
    /\ geo \in Geometries
    /\ nsections \in 0..MaxSections
    /\ pc = "load"
    /\ InitCommon

SpecLoad == InitLoad /\ [][NextLoad]_vars

\* ---------------------------------------------------------------- lifecycle
\* What a hook of a module can throw at main's catch clauses.
HookErrors == {"ConfigurationError", "RuntimeError", "LogicError", "std::exception"}

\* Variant: the default of the key is ignored.
GetNoDefault(value, default) == IF value = << >> THEN 0 ELSE value[1]

\* global_config_.get<unsigned int>(key, default)
Get(value, default) == IF value = << >> THEN default ELSE value[1]

\* One iteration of a phase loop: the section header is set from
\* module_to_id_.at(mod.get()).getName(), the hook is called, and the header
\* is reset when the hook returns.
CallHook(phase, prefix, ev) ==
    LET mod == modules_[pos]
        ids == {e \in module_to_id_ : e[1] = mod}
    IN  IF ids = {}
        THEN /\ Throw("std::exception", "out_of_range")
             /\ UNCHANGED << pos, log_section, calls >>
        ELSE LET name == (CHOOSE e \in ids : TRUE)[2].name
                 old_section_name == log_section
             IN  \E result \in {"ok"} \cup HookErrors :
                    /\ calls' = Append(calls, [phase |-> phase, mod |-> mod,
                                               event |-> ev, result |-> result])
                    /\ IF result = "ok"
                       THEN /\ log_section' = old_section_name
                            /\ pos' = pos + 1
                            /\ UNCHANGED << pc, exception >>
                       ELSE /\ log_section' = << prefix, name >>
                            /\ Throw(result, name)
                            /\ UNCHANGED pos

\* Variant: the loop stops one module early.
EndsEarly(list, p) == p >= Len(list)

\* the range-for over modules_ has reached modules_.end()
AtEnd(list, p) == p > Len(list)

\* ModuleManager::init, one module
InitModule ==
    /\ pc = "init" /\ ~AtEnd(modules_, pos)
    /\ CallHook("init", "I:", 0)
    /\ UNCHANGED << geo, nsections, configs, return_code, number_of_events, event >>
    /\ UNCHANGED loadVars

\* init returns; main calls run, which reads number_of_events
BeginRun ==
    /\ pc = "init" /\ AtEnd(modules_, pos)
    /\ \E value \in {<< >>} \cup {<< n >> : n \in 0..MaxEvents} : number_of_events' = value
    /\ pc' = "run"
    /\ event' = 0
    /\ pos' = 1
    /\ UNCHANGED << geo, nsections, configs, exception, return_code, log_section, calls >>
    /\ UNCHANGED loadVars

\* ModuleManager::run, one module of event i
RunModule ==
    /\ pc = "run" /\ event < Get(number_of_events, DefaultEvents)
    /\ ~AtEnd(modules_, pos)
    /\ CallHook("run", "R:", event + 1)
    /\ UNCHANGED << geo, nsections, configs, return_code, number_of_events, event >>
    /\ UNCHANGED loadVars

\* ++i
NextEvent ==
    /\ pc = "run" /\ event < Get(number_of_events, DefaultEvents)
    /\ AtEnd(modules_, pos)
    /\ event' = event + 1
    /\ pos' = 1
    /\ UNCHANGED << geo, nsections, configs, pc, exception, return_code, number_of_events,
                    log_section, calls >>
    /\ UNCHANGED loadVars

\* run returns; main calls finalize
BeginFinalize ==
    /\ pc = "run" /\ ~(event < Get(number_of_events, DefaultEvents))
    /\ pc' = "finalize"
    /\ pos' = 1
    /\ UNCHANGED << geo, nsections, configs, exception, return_code, number_of_events,
                    event, log_section, calls >>
    /\ UNCHANGED loadVars

\* ModuleManager::finalize, one module
FinalizeModule ==
    /\ pc = "finalize" /\ ~AtEnd(modules_, pos)
    /\ CallHook("finalize", "F:", 0)
    /\ UNCHANGED << geo, nsections, configs, return_code, number_of_events, event >>
    /\ UNCHANGED loadVars

\* finalize returns; main cleans up and returns return_code
MainReturn ==
    /\ pc = "finalize" /\ AtEnd(modules_, pos)
    /\ pc' = "done"
    /\ UNCHANGED << geo, nsections, configs, exception, return_code >>
    /\ UNCHANGED loadVars
    /\ UNCHANGED lifeVars

Next ==
    \/ SkipEmptyConf
    \/ LoadLibrary
    \/ ProbeUnique
    \/ CreateModules
    \/ CreateModulesPerDetector
    \/ PlaceModule
    \/ EndSection
    \/ LoadReturn
    \/ MainCatch
    \/ InitModule
    \/ BeginRun
    \/ RunModule
    \/ NextEvent
    \/ BeginFinalize
    \/ FinalizeModule
    \/ MainReturn

\* Any configuration of up to LifeSections sections, run through all phases.
Init ==
    /\ geo \in Geometries
    /\ nsections \in 0..LifeSections
    /\ pc = "load"
    /\ InitCommon

Spec == Init /\ [][Next]_vars

\* ----------------------------------------------------------------- signals
\* How the process can end in interrupt_handler: std::exit(1) is reached, or
\* the handler, which logs and exits although neither is safe to do in a
\* signal handler, takes the process down before it gets there.
Interrupted == {"exit", "killed"}

\* The section header prefix of the phase loops.
Prefix(phase) == CASE phase = "init" -> "I:" [] phase = "run" -> "R:" [] OTHER -> "F:"

\* main is in the loop of a phase and the next iteration can enter its hook.
InHook ==
    /\ pc \in {"init", "run", "finalize"}
    /\ ~AtEnd(modules_, pos)
    /\ pc = "run" => event < Get(number_of_events, DefaultEvents)
    /\ \E e \in module_to_id_ : e[1] = modules_[pos]

\* SIGINT or SIGTERM arrives after main has installed the handler, between
\* two hooks or inside the hook the loop has just entered. The handler logs,
\* calls clean() and std::exit(1): control never goes back to what the
\* signal interrupted. A hook cut short is recorded as "interrupted".
interrupt_handler ==
    /\ pc \notin {"bus", "done"} \cup Interrupted
    /\ \E in_call \in (IF InHook THEN BOOLEAN ELSE {FALSE}) :
          IF in_call
          THEN LET mod == modules_[pos]
                   name == (CHOOSE e \in module_to_id_ : e[1] = mod)[2].name
               IN  /\ calls' = Append(calls, [phase |-> pc, mod |-> mod,
                                              event |-> IF pc = "run" THEN event + 1 ELSE 0,
                                              result |-> "interrupted"])
                   /\ log_section' = << Prefix(pc), name >>
          ELSE UNCHANGED << calls, log_section >>
    /\ \E outcome \in Interrupted :
          /\ pc' = outcome
          /\ return_code' = IF outcome = "exit" THEN 1 ELSE return_code
    /\ UNCHANGED << geo, nsections, configs, exception, number_of_events, event, pos >>
    /\ UNCHANGED loadVars

\* A run of main that a signal can interrupt at any point.
NextSignal ==
    \/ Next
    \/ interrupt_handler

SpecSignal == Init /\ [][NextSignal]_vars

\* ---------------------------------------------------------------- the bus
\* The Messenger by itself: modules register delegates and dispatch messages
\* in any order.

\* The message types modules listen to and send.
MessageTypes == {"M", "N"}

\* The modules of the bus: module 1 has no detector, module i + 1 is bound to
\* the i-th detector of the geometry.
BusModules(g) == 1..(Len(g) + 1)
BusDetector(g, module) == IF module = 1 THEN "" ELSE g[module - 1].name

\* The message a module sends carries the name of the module's detector.
Message(type, source) == [type |-> type, scope |-> BusDetector(geo, source)]

\* A delegate matches a message of its type when it is filed under the
\* wildcard scope "" or under the scope of the message.
Matches(d, message) ==
    /\ d.type = message.type
    /\ d.scope = "" \/ d.scope = message.scope

\* Variant: the lists of a scope are not told apart by type.
BucketOfScope(dels, type, scope) == SelectSeq(dels, LAMBDA d : d.scope = scope)

\* Variant: the lists of a type are not told apart by scope.
BucketOfType(dels, type, scope) == SelectSeq(dels, LAMBDA d : d.type = type)

\* The list delegates_[type][scope]: the delegates filed under the type and
\* the scope, in the order they were added.
Bucket(dels, type, scope) == SelectSeq(dels, LAMBDA d : d.type = type /\ d.scope = scope)

\* The delegates dispatch calls for the message: those of the wildcard list
\* and, for a message with a scope, those of the list of that scope; each
\* list in the order of registration, the wildcard list first or last.
dispatch_message(dels, message, wildcard_first) ==
    LET wildcard == Bucket(dels, message.type, "")
        scoped == IF message.scope = "" THEN << >>
                  ELSE Bucket(dels, message.type, message.scope)
    IN  IF wildcard_first THEN wildcard \o scoped ELSE scoped \o wildcard

\* A single-slot delegate without ALLOW_OVERWRITE refuses a message when its
\* slot holds one.
Refuses(d, slot) == d.kind = "single" /\ d.flags = "NONE" /\ slot # << >>

\* What the module holds through delegate d after d was called with value.
Process(d, slot, value) ==
    CASE d.kind = "listener" -> slot
      [] d.kind = "single" -> IF Refuses(d, slot) THEN slot ELSE << value >>
      [] d.kind = "multi" -> Append(slot, value)

\* The number of delegates of ds that are called: all of them, or those up
\* to the first that refuses the message.
Called(ds, sl) ==
    LET refusing == {k \in DOMAIN ds : Refuses(ds[k], sl[ds[k].id])}
    IN  IF refusing = {} THEN Len(ds)
        ELSE CHOOSE k \in refusing : \A l \in refusing : k <= l

\* The slots after the delegates ds[1..n] were called with value, one by one.
RECURSIVE Deliver(_, _, _, _)
Deliver(ds, n, sl, value) ==
    IF n = 0 THEN sl
    ELSE LET before == Deliver(ds, n - 1, sl, value)
             d == ds[n]
         IN  [before EXCEPT ![d.id] = Process(d, before[d.id], value)]

\* The delegates that bind a slot of their module.
Binds(dels) == SelectSeq(dels, LAMBDA d : d.kind # "listener")

\* A module registers a delegate made by one of the registration forms.
Register(kinds, flags) ==
    /\ pc = "bus"
    /\ Len(registered) < MaxDelegates
    /\ "listener" \in kinds \/ Len(Binds(registered)) < MaxBinds
    /\ \E type \in MessageTypes, module \in BusModules(geo), kind \in kinds, flag \in flags :
          LET scope == BusDetector(geo, module)
              id == Len(registered) + 1
              delegate == CASE kind = "listener" -> ListenerDelegate(id)
                            [] kind = "single" -> SingleBindDelegate(id, flag)
                            [] kind = "multi" -> MultiBindDelegate(id)
          IN  /\ delegates_' = add_delegate(delegates_, type, module, scope, delegate)
              /\ registered' = Append(registered, Delegate(type, module, scope, delegate))
              /\ slots' = Append(slots, << >>)
    /\ UNCHANGED << geo, nsections, configs, pc, sec, loadedLibraries_, unique, mod_list, heap,
                    modules_, id_to_module_, module_to_id_, exception, return_code, produced,
                    inserted, dlopen_calls, dispatched, removed, has_receiver >>
    /\ UNCHANGED lifeVars
    /\ UNCHANGED toolVars

\* registerListener called by a module
RegisterDelegate == Register({"listener"}, {"NONE"})

\* bindSingle called by a module, with or without ALLOW_OVERWRITE
BindSingle == Register({"single"}, {"NONE", "ALLOW_OVERWRITE"})

\* bindMulti called by a module
BindMulti == Register({"multi"}, {"NONE"})

\* dispatchMessage called by a module during the current event
DispatchMessage ==
    /\ pc = "bus"
    /\ Len(dispatched) < MaxDispatches
    /\ \E type \in MessageTypes, source \in BusModules(geo), wildcard_first \in BOOLEAN :
          LET message == Message(type, source)
              value == Len(dispatched) + 1
              matching == dispatch_message(delegates_, message, wildcard_first)
              n == Called(matching, slots)
              failed == n > 0 /\ Refuses(matching[n], slots[matching[n].id])
          IN  /\ slots' = Deliver(matching, n, slots, value)
              /\ dispatched' = Append(dispatched,
                                      [message |-> message,
                                       value |-> value,
                                       event |-> event,
                                       nregistered |-> Len(registered),
                                       removed |-> removed,
                                       invoked |-> SubSeq(matching, 1, n),
                                       failed |-> failed])
              /\ IF failed
                 THEN Throw("DoubleDeliveryError", message.type)
                 ELSE UNCHANGED << pc, exception >>
    /\ UNCHANGED << geo, nsections, configs, sec, loadedLibraries_, unique, mod_list, heap,
                    modules_, id_to_module_, module_to_id_, delegates_, return_code,
                    produced, inserted, dlopen_calls, registered, removed, has_receiver >>
    /\ UNCHANGED lifeVars
    /\ UNCHANGED toolVars

\* The delegates of the module on the bus.
DelegatesOf(dels, module) == {d.id : d \in {x \in Range(dels) : x.owner = module}}

\* The destructor of a module removes the delegates of the module from the
\* Messenger, one remove_delegate call for each; none for a module without.
RemoveDelegates ==
    /\ pc = "bus"
    /\ Cardinality(removed) < MaxRemoved
    /\ \E module \in BusModules(geo) :
          /\ delegates_' = remove_delegate(delegates_, module)
          /\ removed' = removed \cup DelegatesOf(delegates_, module)
    /\ UNCHANGED << geo, nsections, configs, pc, sec, loadedLibraries_, unique, mod_list, heap,
                    modules_, id_to_module_, module_to_id_, exception, return_code, produced,
                    inserted, dlopen_calls, registered, dispatched, slots, has_receiver >>
    /\ UNCHANGED lifeVars
    /\ UNCHANGED toolVars

NextBus ==
    \/ RegisterDelegate
    \/ DispatchMessage
    \/ RemoveDelegates

\* A Messenger without delegates, over any geometry.
InitBus ==
    /\ geo \in Geometries
    /\ nsections = 0
    /\ pc = "bus"
    /\ InitCommon

SpecBus == InitBus /\ [][NextBus]_vars

\* hasReceiver: there is a delegate that a dispatch of the message would call.
hasReceiver(dels, message) == dispatch_message(dels, message, TRUE) # << >>

\* hasReceiver called by a module
HasReceiver ==
    /\ pc = "bus"
    /\ \E type \in MessageTypes, source \in BusModules(geo) :
          LET message == Message(type, source)
          IN  has_receiver' = << [message |-> message,
                                  nregistered |-> Len(registered),
                                  removed |-> removed,
                                  result |-> hasReceiver(delegates_, message)] >>
    /\ UNCHANGED << geo, nsections, configs, pc, sec, loadedLibraries_, unique, mod_list, heap,
                    modules_, id_to_module_, module_to_id_, delegates_, exception, return_code,
                    produced, inserted, dlopen_calls, registered, dispatched, slots, removed >>
    /\ UNCHANGED lifeVars
    /\ UNCHANGED toolVars

\* The Messenger of a geometry of one detector, with modules that ask for
\* receivers before they send.
NextQuery ==
    \/ BindSingle
    \/ DispatchMessage
    \/ RemoveDelegates
    \/ HasReceiver

InitQuery ==
    /\ InitBus
    /\ Len(geo) = 1

SpecQuery == InitQuery /\ [][NextQuery]_vars

\* ++i of the event loop of ModuleManager::run: the next event starts; the
\* loop does nothing to the Messenger or to the delegates.
BusNextEvent ==
    /\ pc = "bus"
    /\ event + 1 < MaxEvents
    /\ event' = event + 1
    /\ UNCHANGED << geo, nsections, configs, pc, exception, return_code, number_of_events, pos,
                    log_section, calls >>
    /\ UNCHANGED loadVars

\* The Messenger during the events of run, with modules that bind slots.
NextSlots ==
    \/ BindSingle
    \/ BindMulti
    \/ DispatchMessage
    \/ BusNextEvent

SpecSlots == InitBus /\ [][NextSlots]_vars

\* ------------------------------------------------------------------ claims
LoadPcs == {"load", "probe", "create", "place"}
LoadErrors == {"DynamicLibraryError", "AmbiguousInstantiationError",
               "InvalidModuleStateException"}
PluginFaults == {"DynamicLibraryError", "InvalidModuleStateException"}

\* load is not running any more / load has returned without an exception
LoadOver == pc \notin LoadPcs
LoadReturned == LoadOver /\ exception.type \notin LoadErrors

IdOf(m) == heap[m].id
SectionOf(m) == configs[heap[m].section]

\* The modules of the registry whose identifier has the key of id.
Held(id) == {m \in Range(modules_) : SameKey(IdOf(m), id)}

\* The number of positions of modules_ holding a module with the key of id.
HeldCount(id) == Cardinality({i \in DOMAIN modules_ : SameKey(IdOf(modules_[i]), id)})

\* C1 as stated: whenever two produced identifiers have the same key and equal
\* priority, load fails with AmbiguousInstantiationError.
C1_Original ==
    LoadOver =>
        \A i, j \in DOMAIN produced :
            (i < j /\ SameKey(produced[i][1], produced[j][1])
                   /\ produced[i][1].priority = produced[j][1].priority)
            => exception.type = "AmbiguousInstantiationError"

\* C1 amended: whenever two produced identifiers have the same key and equal
\* priority, and no identifier with that key and a lower priority integer was
\* produced before the second one (so the first is, or is as good as, the entry
\* the registry holds), load fails with AmbiguousInstantiationError.
C1_AmbiguousOnEqualHeld ==
    LoadOver =>
        \A i, j \in DOMAIN produced :
            (/\ i < j /\ SameKey(produced[i][1], produced[j][1])
             /\ produced[i][1].priority = produced[j][1].priority
             /\ \A k \in 1..(j - 1) :
                    SameKey(produced[k][1], produced[j][1])
                    => produced[k][1].priority >= produced[j][1].priority)
            => exception.type = "AmbiguousInstantiationError"

\* Two sections produced the same key at equal priority and load failed.
C1_Witness ==
    /\ pc = "done"
    /\ exception.type = "AmbiguousInstantiationError"
    /\ \E i, j \in DOMAIN produced :
          /\ i < j /\ SameKey(produced[i][1], produced[j][1])
          /\ produced[i][1].priority = produced[j][1].priority
          /\ heap[produced[i][2]].section # heap[produced[j][2]].section

\* C2 as stated: of two produced identifiers with the same key and different
\* priority, the registry holds after load exactly one instance for the key,
\* the one with the higher priority integer.
C2_Original ==
    LoadReturned =>
        \A i, j \in DOMAIN produced :
            (SameKey(produced[i][1], produced[j][1])
             /\ produced[i][1].priority > produced[j][1].priority)
            => /\ HeldCount(produced[i][1]) = 1
               /\ Held(produced[i][1]) = {produced[i][2]}

\* C2 amended: when identifiers with the same key and different priority
\* integers were produced, the registry holds after load exactly one instance
\* for the key, and it is the instance with the lowest priority integer of all
\* produced for that key (of two, the one with the lower integer), whichever
\* section came first.
C2_LowestIntegerRetained ==
    LoadReturned =>
        \A i, j \in DOMAIN produced :
            (SameKey(produced[i][1], produced[j][1])
             /\ produced[i][1].priority > produced[j][1].priority)
            => /\ HeldCount(produced[i][1]) = 1
               /\ produced[i][2] \notin Range(modules_)
               /\ \E k \in DOMAIN produced :
                     /\ SameKey(produced[k][1], produced[i][1])
                     /\ \A l \in DOMAIN produced :
                           SameKey(produced[l][1], produced[i][1])
                           => produced[k][1].priority <= produced[l][1].priority
                     /\ Held(produced[i][1]) = {produced[k][2]}
                     /\ \E e \in id_to_module_ : e = << produced[k][1], produced[k][2] >>

\* A later section evicted the instance of an earlier one, and an earlier
\* section kept its instance against a later one.
C2_Witness ==
    /\ pc = "init"
    /\ \E i, j \in DOMAIN produced :
          /\ i < j /\ SameKey(produced[i][1], produced[j][1])
          /\ produced[i][1].priority > produced[j][1].priority
          /\ produced[j][2] \in Range(modules_)
    /\ \E i, j \in DOMAIN produced :
          /\ i < j /\ SameKey(produced[i][1], produced[j][1])
          /\ produced[i][1].priority < produced[j][1].priority
          /\ produced[i][2] \in Range(modules_)

\* C3: after load has returned every instance that lost a priority conflict is
\* torn down and every delegate on the bus is owned by an instance that is live
\* in the registry.
C3_LosersTornDown ==
    LoadReturned =>
        /\ \A i \in DOMAIN produced :
              produced[i][2] \notin Range(modules_) => heap[produced[i][2]].destroyed
        /\ \A d \in Range(delegates_) : d.owner \in Range(modules_)

\* C4: of two instances with the same key of a per-detector module, the one of
\* a section with a name or type array is retained over the one of a section
\* with neither key, in either order of the sections.
C4_SpecificBeatsBroad ==
    LoadReturned =>
        \A i, j \in DOMAIN produced :
            LET si == SectionOf(produced[i][2])
                sj == SectionOf(produced[j][2])
            IN  (/\ SameKey(produced[i][1], produced[j][1])
                 /\ ~UniqueFunction(si.name)
                 /\ si.has_name \/ si.has_type
                 /\ ~sj.has_name /\ ~sj.has_type)
                => produced[j][2] \notin Range(modules_)

\* C5: a detector that the sections of a per-detector module both list by name
\* and match by type has, after load, exactly one instance in the registry,
\* the name-listed one of priority 1.
C5_NameBeatsType ==
    LoadReturned =>
        \A a, b \in DOMAIN configs : \A d \in Range(geo) :
            (/\ configs[a].name = configs[b].name
             /\ configs[a].name # "" /\ ~UniqueFunction(configs[a].name)
             /\ configs[a].has_name /\ d.name \in Range(configs[a].names)
             /\ configs[b].has_type /\ d.type \in Range(configs[b].types))
            => LET id == ModuleIdentifier(configs[a].name, d.name, PriorityName)
               IN  /\ HeldCount(id) = 1
                   /\ \A m \in Held(id) :
                         /\ IdOf(m).priority = PriorityName
                         /\ SectionOf(m).has_name
                         /\ d.name \in Range(SectionOf(m).names)

\* The three sections of the end-to-end scenario over the geometry of D1 alone.
Scenario ==
    /\ geo = << [name |-> "D1", type |-> "T"] >>
    /\ nsections = 3
    /\ configs = << [name |-> "A", has_name |-> FALSE, names |-> <<>>,
                     has_type |-> FALSE, types |-> <<>>],
                    [name |-> "B", has_name |-> TRUE, names |-> << "D1" >>,
                     has_type |-> FALSE, types |-> <<>>],
                    [name |-> "B", has_name |-> FALSE, names |-> <<>>,
                     has_type |-> TRUE, types |-> << "T" >>] >>

\* C6: loading [A], [B] name=[D1], [B] type=[T] over the geometry of D1 (of
\* type T) alone succeeds, the plugins being installed and well-formed, and
\* leaves exactly one instance of A without detector and one of B bound to D1.
C6_Scenario ==
    (Scenario /\ LoadOver /\ exception.type \notin PluginFaults) =>
        /\ exception = NoError
        /\ Len(modules_) = 2
        /\ {<< IdOf(m).name, IdOf(m).identifier, heap[m].detector >> : m \in Range(modules_)}
              = {<< "A", "", "" >>, << "B", "D1", "D1" >>}
        /\ {<< e[1].name, e[1].identifier >> : e \in id_to_module_}
              = {<< "A", "" >>, << "B", "D1" >>}

\* The scenario has been loaded.
C6_Witness == Scenario /\ pc = "init" /\ Len(produced) = 3

\* C7: the registry holds at most one instance per key, at every step of load
\* and after it, and the execution order of the instances it holds is the order
\* in which they were inserted.
C7_UniqueKeysInInsertionOrder ==
    /\ \A i, j \in DOMAIN modules_ :
          i # j => ~SameKey(IdOf(modules_[i]), IdOf(modules_[j]))
    /\ \A e, f \in id_to_module_ : SameKey(e[1], f[1]) => e = f
    /\ modules_ = SelectSeq(inserted, LAMBDA m : m \in Range(modules_))

\* load has returned with two instances after an eviction.
C7_Witness ==
    /\ pc = "init"
    /\ Len(modules_) >= 2
    /\ Len(inserted) > Len(modules_)

\* ----------------------------------------------------- claims on the phases
PhaseRank(phase) == CASE phase = "init" -> 1 [] phase = "run" -> 2 [] phase = "finalize" -> 3

CallsOf(phase) == SelectSeq(calls, LAMBDA c : c.phase = phase)

IsPrefix(s, t) == Len(s) <= Len(t) /\ \A i \in DOMAIN s : s[i] = t[i]

ModsOf(cs) == [i \in DOMAIN cs |-> cs[i].mod]

\* The number of events the configuration asks for: 1 when the key is not set.
ConfiguredEvents == IF number_of_events = << >> THEN 1 ELSE number_of_events[1]

\* The run calls of a complete run phase: event by event, registry order.
ExpectedRun(n) ==
    [k \in 1..(n * Len(modules_)) |->
        [phase |-> "run", mod |-> modules_[((k - 1) % Len(modules_)) + 1],
         event |-> ((k - 1) \div Len(modules_)) + 1, result |-> "ok"]]

\* C8: the hooks run in the fixed phase order: a run is invoked only after the
\* init of every instance has returned, a finalize only after the run of every
\* instance for every event has returned, and each phase visits the instances
\* in registry order.
C8_PhaseOrder ==
    /\ \A i, j \in DOMAIN calls :
          i < j => PhaseRank(calls[i].phase) <= PhaseRank(calls[j].phase)
    /\ CallsOf("run") # <<>> =>
          /\ ModsOf(CallsOf("init")) = modules_
          /\ \A c \in Range(CallsOf("init")) : c.result = "ok"
    /\ CallsOf("finalize") # <<>> =>
          CallsOf("run") = ExpectedRun(ConfiguredEvents)
    /\ IsPrefix(ModsOf(CallsOf("init")), modules_)
    /\ IsPrefix(ModsOf(CallsOf("finalize")), modules_)
    /\ \A e \in 1..(MaxEvents + 1) :
          IsPrefix(ModsOf(SelectSeq(calls, LAMBDA c : c.phase = "run" /\ c.event = e)),
                   modules_)

\* All three phases have completed over two instances and two events.
C8_Witness ==
    /\ pc = "done" /\ exception = NoError
    /\ Len(modules_) >= 2
    /\ number_of_events = << 2 >>
    /\ Len(CallsOf("finalize")) = Len(modules_)

\* the run phase has returned
RunReturned ==
    \/ pc = "finalize"
    \/ CallsOf("finalize") # <<>>
    \/ pc = "done" /\ exception = NoError

\* C9: run invokes the run hook of every instance of the registry exactly once
\* per event, for number_of_events events (1 when the key is not set), in
\* registry order in every event, one event after the other.
C9_RunOncePerEvent ==
    RunReturned => CallsOf("run") = ExpectedRun(ConfiguredEvents)

\* run has returned with the default number of events over two instances.
C9_Witness ==
    /\ pc = "finalize"
    /\ number_of_events = << >>
    /\ Len(modules_) >= 2
    /\ Len(CallsOf("run")) = Len(modules_)

\* C10: when a hook raises an error nothing is invoked after it: the failed
\* call is the last one made and was made once, main is in its catch clause or
\* past it, and the exception it catches is the one the hook raised.
C10_HookErrorAborts ==
    /\ \A i \in DOMAIN calls :
          calls[i].result # "ok" =>
              /\ i = Len(calls)
              /\ pc \in {"catch", "done"}
              /\ exception.type = calls[i].result
    /\ \A i, j \in DOMAIN calls :
          (i # j) => << calls[i].phase, calls[i].mod, calls[i].event >>
                       # << calls[j].phase, calls[j].mod, calls[j].event >>

\* A run hook of the first event failed with instances and an event to go.
C10_Witness ==
    /\ pc = "done"
    /\ calls # <<>>
    /\ Last(calls).result = "RuntimeError"
    /\ Last(calls).phase = "run"
    /\ Last(calls).event = 1
    /\ number_of_events = << 2 >>
    /\ Last(calls).mod # Last(modules_)
    /\ return_code # 0

-----------------------------------------------------------------------------
\* C11: once load has failed with an error, no init, run or finalize hook of
\* any module is ever invoked, and main only reports the error and ends.
C11_NoHookAfterLoadError ==
    exception.type \in LoadErrors =>
        /\ calls = << >>
        /\ pc \in {"catch", "done"}
        /\ event = 0

\* load failed at a later section, after modules had been placed in the registry
C11_Witness ==
    /\ pc = "done"
    /\ exception.type \in LoadErrors
    /\ modules_ # << >>
    /\ calls = << >>

-----------------------------------------------------------------------------
\* C12: whenever no hook is executing (between two hook calls, after a phase,
\* and after a hook has raised an error), the logging context is the one that
\* was current before the phase started, which is the empty one main starts with.
C12_ContextRestored ==
    pc \in {"init", "run", "finalize", "catch", "done"} => log_section = << >>

-----------------------------------------------------------------------------
\* The dlopen calls made for the library of module name.
OpensOf(name) == {i \in DOMAIN dlopen_calls : dlopen_calls[i].name = name}

\* C13: a library is opened at most once per module name; the sections after
\* the first of a name use the handle cached by that one call, and the cached
\* handle is never removed or replaced.
C13_LoadedOnce ==
    /\ \A name \in ModuleNames : Cardinality(OpensOf(name)) <= 1
    /\ \A i \in DOMAIN dlopen_calls :
          dlopen_calls[i].lib # << >> =>
              /\ dlopen_calls[i].name \in DOMAIN loadedLibraries_
              /\ loadedLibraries_[dlopen_calls[i].name] = dlopen_calls[i].lib[1]
    /\ \A name \in DOMAIN loadedLibraries_ : OpensOf(name) # {}

\* Three sections of one module name were instantiated from a single dlopen.
C13_Witness ==
    /\ LoadReturned
    /\ Len(configs) = 3
    /\ \A i \in DOMAIN configs : configs[i].name = "B"
    /\ \A i \in DOMAIN configs : \E m \in DOMAIN heap : heap[m].section = i
    /\ Len(dlopen_calls) = 1

-----------------------------------------------------------------------------
-----------------------------------------------------------------------------
\* The library cached for name has no "unique" or no "generator" symbol.
Lacking(name) ==
    /\ name \in DOMAIN loadedLibraries_
    /\ ~(loadedLibraries_[name].unique /\ loadedLibraries_[name].generator)

\* C15: once load is past the lookups of a library that lacks the "unique"
\* probe or the "generator" factory, it has failed at that section with
\* DynamicLibraryError naming the module, and the factory was not called for
\* that section; and load fails with that error for an opened library only if
\* the library lacks one of the two entry points.
C15_MissingEntryPoint ==
    /\ \A name \in ModuleNames :
          (Lacking(name) /\ pc \notin {"probe", "create"}) =>
              /\ pc \in {"catch", "done"}
              /\ exception = [type |-> "DynamicLibraryError", what |-> name]
              /\ configs[sec].name = name
              /\ \A m \in DOMAIN heap : heap[m].section # sec
              /\ \A i \in DOMAIN configs : configs[i].name = name => i = sec
    /\ (exception.type = "DynamicLibraryError" /\ exception.what \in DOMAIN loadedLibraries_)
          => Lacking(exception.what)

\* The second section's library has the probe but no factory; the first
\* section's module was instantiated from a complete library.
C15_Witness ==
    /\ pc = "done"
    /\ sec = 2
    /\ exception.type = "DynamicLibraryError"
    /\ Lacking(configs[2].name)
    /\ loadedLibraries_[configs[2].name].unique
    /\ configs[1].name \in DOMAIN loadedLibraries_
    /\ ~Lacking(configs[1].name)
    /\ modules_ # << >>

-----------------------------------------------------------------------------
\* The modules constructed with a detector other than the one of the identifier
\* they were requested for.
Misbound == {m \in DOMAIN heap : heap[m].detector # heap[m].id.identifier}

\* C16: a per-detector instance that is bound to another detector than the
\* requested one makes load fail with InvalidModuleStateException right after
\* its construction, whether it was requested by name, by type or for all
\* detectors, and it is never inserted in the registry.
C16_MisboundRejected ==
    \A m \in Misbound :
        /\ pc \in {"catch", "done"}
        /\ exception.type = "InvalidModuleStateException"
        /\ m = Len(heap)
        /\ heap[m].section = sec
        /\ m \notin Range(inserted)
        /\ m \notin Range(modules_)

\* A section with both keys: the instance requested by name was bound
\* correctly, the one requested by type was not; an earlier section had
\* filled the registry.
C16_Witness ==
    /\ pc = "done"
    /\ sec = 2
    /\ Misbound # {}
    /\ \E m \in Misbound : heap[m].id.priority = PriorityType
    /\ \E m \in DOMAIN heap : heap[m].section = sec /\ heap[m].id.priority = PriorityName
    /\ modules_ # << >>

-----------------------------------------------------------------------------
\* The factory of section s has been called for all the instances of s.
Created(s) ==
    \/ s < sec
    \/ /\ s = sec
       /\ \/ pc = "place"
          \/ pc \in {"catch", "done"} /\ exception.type = "AmbiguousInstantiationError"

\* The modules constructed for section s.
InstancesOf(s) == {m \in DOMAIN heap : heap[m].section = s}

\* C17: a section of a module whose "unique" function returns true yields
\* exactly one instance, with an empty detector identifier and priority 0,
\* whether or not the section has a name or a type key.
C17_UniqueOneInstance ==
    \A s \in DOMAIN configs :
        (Created(s) /\ UniqueFunction(configs[s].name)) =>
            /\ Cardinality(InstancesOf(s)) = 1
            /\ \A m \in InstancesOf(s) :
                  /\ heap[m].id = [name |-> configs[s].name, identifier |-> "", priority |-> 0]
                  /\ heap[m].detector = ""
            /\ Cardinality({i \in DOMAIN produced : produced[i][2] \in InstancesOf(s)}) = 1

\* load has returned after a section of a unique module that has both keys
C17_Witness ==
    /\ LoadReturned
    /\ \E s \in DOMAIN configs :
          /\ UniqueFunction(configs[s].name)
          /\ configs[s].has_name /\ configs[s].has_type
          /\ \E m \in Range(modules_) : heap[m].section = s

-----------------------------------------------------------------------------
\* The sections of per-detector modules whose instances have all been made.
PerDetectorCreated ==
    {s \in DOMAIN configs :
        Created(s) /\ configs[s].name \in ModuleNames /\ ~UniqueFunction(configs[s].name)}

\* The detector of the geometry called name is named by section conf or has
\* a type that conf lists.
Selected(conf, name) ==
    \/ conf.has_name /\ name \in Range(conf.names)
    \/ /\ conf.has_type
       /\ \E d \in Range(geo) : d.name = name /\ d.type \in Range(conf.types)

\* C18: a section of a per-detector module with neither key yields exactly
\* one instance for every detector of the geometry, each with priority 0; a
\* section with a name or a type key yields instances only for detectors that
\* it names or whose type it lists.
C18_AllOrSelected ==
    \A s \in PerDetectorCreated :
        IF ~configs[s].has_name /\ ~configs[s].has_type
        THEN /\ Cardinality(InstancesOf(s)) = Len(geo)
             /\ \A d \in Range(geo) :
                   \E m \in InstancesOf(s) :
                       /\ heap[m].id = [name |-> configs[s].name, identifier |-> d.name,
                                        priority |-> 0]
                       /\ heap[m].detector = d.name
        ELSE \A m \in InstancesOf(s) : Selected(configs[s], heap[m].id.identifier)

\* load has returned over a geometry of two detectors after a section without
\* keys and a section that names one detector only
C18_Witness ==
    /\ LoadReturned
    /\ Len(geo) = 2
    /\ \E s, t \in PerDetectorCreated :
          /\ ~configs[s].has_name /\ ~configs[s].has_type
          /\ Cardinality(InstancesOf(s)) = 2
          /\ configs[t].has_name /\ ~configs[t].has_type
          /\ Cardinality(InstancesOf(t)) = 1

-----------------------------------------------------------------------------
\* The next pair of mod_list meets a held entry with the same key and a
\* strictly higher priority, which is a strictly lower priority integer (the
\* code replaces the held entry when its integer is greater and calls that
\* "priority of new instance is higher").
MeetsHigherPriority ==
    /\ pc = "place"
    /\ mod_list # << >>
    /\ \E e \in id_to_module_ :
          /\ SameKey(e[1], Head(mod_list)[1])
          /\ e[1].priority < Head(mod_list)[1].priority

\* C19: when the new instance meets a held entry with the same key and a
\* strictly higher priority, the step of load that handles it drops the new
\* instance and leaves the registry as it was: the same modules in the same
\* order, the same identifiers with the same priorities; load goes on.
C19_LowerPriorityDiscarded ==
    [][MeetsHigherPriority =>
          /\ modules_' = modules_
          /\ id_to_module_' = id_to_module_
          /\ module_to_id_' = module_to_id_
          /\ inserted' = inserted
          /\ mod_list' = Tail(mod_list)
          /\ pc' = "place"
          /\ exception' = exception]_vars

\* load has returned holding the instance of an earlier section, after the
\* instance a later section produced for the same key with a greater
\* priority integer was dropped
C19_Witness ==
    /\ LoadReturned
    /\ \E i, j \in DOMAIN produced :
          /\ i < j
          /\ SameKey(produced[i][1], produced[j][1])
          /\ produced[i][1].priority < produced[j][1].priority
          /\ produced[i][2] \in Range(modules_)
          /\ produced[j][2] \notin Range(inserted)

-----------------------------------------------------------------------------
\* The first n delegates handed to the Messenger that were registered for
\* messages of the type with the scope.
RegisteredFor(type, scope, n) ==
    {registered[k].id : k \in {j \in 1..n : /\ registered[j].type = type
                                             /\ registered[j].scope = scope}}

\* C20: the dispatch of a message of type T that carries no scope invokes
\* every delegate registered for T with the wildcard scope, once, and nothing
\* else: no delegate registered for T with the name of a detector, and no
\* delegate registered for another type.
C20_UnscopedDispatch ==
    \A i \in DOMAIN dispatched :
        (dispatched[i].message.scope = "" /\ ~dispatched[i].failed) =>
            LET wildcard == RegisteredFor(dispatched[i].message.type, "",
                                          dispatched[i].nregistered)
                                \ dispatched[i].removed
            IN  /\ {d.id : d \in Range(dispatched[i].invoked)} = wildcard
                /\ Len(dispatched[i].invoked) = Cardinality(wildcard)

\* A message of type "M" without scope was dispatched with a wildcard
\* delegate for "M", a delegate for "M" scoped to a detector and a wildcard
\* delegate for "N" registered: it reached the first one only.
C20_Witness ==
    /\ dispatched # << >>
    /\ dispatched[1].message = [type |-> "M", scope |-> ""]
    /\ dispatched[1].nregistered = 3
    /\ Len(dispatched[1].invoked) = 1
    /\ RegisteredFor("M", "", 3) # {}
    /\ \E r \in Range(registered) : r.type = "M" /\ r.scope # ""
    /\ RegisteredFor("N", "", 3) # {}

-----------------------------------------------------------------------------
\* The delegates registered for messages of the type with the scope that were
\* on the bus when the i-th dispatch was made.
LiveFor(type, scope, i) ==
    RegisteredFor(type, scope, dispatched[i].nregistered) \ dispatched[i].removed

\* The delegates the i-th dispatch invoked.
InvokedBy(i) == {d.id : d \in Range(dispatched[i].invoked)}

\* C21: the dispatch of a message of type T with the scope X invokes every
\* delegate registered for T with the wildcard scope and every delegate
\* registered for T with the scope X, each once, and no delegate registered
\* with another scope (or for another type).
C21_ScopedDispatch ==
    \A i \in DOMAIN dispatched :
        (dispatched[i].message.scope # "" /\ ~dispatched[i].failed) =>
            LET T == dispatched[i].message.type
                X == dispatched[i].message.scope
            IN  /\ InvokedBy(i) = LiveFor(T, "", i) \cup LiveFor(T, X, i)
                /\ Len(dispatched[i].invoked) = Cardinality(InvokedBy(i))

\* A message of type "M" with the scope of the first detector was dispatched
\* with three delegates for "M" registered: a wildcard one, one scoped to the
\* first detector and one scoped to the second; it reached the first two.
C21_Witness ==
    /\ Len(geo) = 2
    /\ dispatched # << >>
    /\ dispatched[1].message = [type |-> "M", scope |-> geo[1].name]
    /\ dispatched[1].nregistered = 3
    /\ Len(dispatched[1].invoked) = 2
    /\ RegisteredFor("M", "", 3) # {}
    /\ RegisteredFor("M", geo[1].name, 3) # {}
    /\ RegisteredFor("M", geo[2].name, 3) # {}

-----------------------------------------------------------------------------
\* The dispatches of event e that called the delegate, in order.
CallsTo(id, e) ==
    {k \in DOMAIN dispatched : dispatched[k].event = e /\ id \in InvokedBy(k)}

Min(S) == CHOOSE k \in S : \A l \in S : k <= l
Max(S) == CHOOSE k \in S : \A l \in S : k >= l

\* The delegates registered with bindSingle, without and with ALLOW_OVERWRITE.
SingleSlots(flags) ==
    {id \in DOMAIN registered :
        registered[id].kind = "single" /\ registered[id].flags = flags}

\* C22: within one event, the second dispatch that calls a single-slot
\* delegate registered without ALLOW_OVERWRITE fails with DoubleDeliveryError
\* at that delegate and its slot keeps the value of the first; a single-slot
\* delegate registered with ALLOW_OVERWRITE never makes a dispatch fail and
\* its slot holds the value of the last dispatch of the event that called it.
C22_SingleSlotDelivery ==
    /\ \A id \in SingleSlots("NONE") :
          \A k, i \in CallsTo(id, event) :
              k < i =>
                  /\ dispatched[i].failed
                  /\ Last(dispatched[i].invoked).id = id
                  /\ exception.type = "DoubleDeliveryError"
                  /\ pc = "catch"
                  /\ slots[id] = << dispatched[Min(CallsTo(id, event))].value >>
    /\ \A id \in SingleSlots("ALLOW_OVERWRITE") :
          /\ \A i \in DOMAIN dispatched :
                dispatched[i].failed => Last(dispatched[i].invoked).id # id
          /\ CallsTo(id, event) # {} =>
                slots[id] = << dispatched[Max(CallsTo(id, event))].value >>

\* Two dispatches of one event called two single-slot delegates: the one with
\* ALLOW_OVERWRITE holds the second value, the one without made the second
\* dispatch fail and holds the first value.
C22_Witness ==
    /\ Len(dispatched) = 2
    /\ dispatched[1].event = dispatched[2].event
    /\ dispatched[2].failed
    /\ \E a \in SingleSlots("ALLOW_OVERWRITE"), n \in SingleSlots("NONE") :
          /\ {1, 2} \subseteq CallsTo(a, event)
          /\ {1, 2} \subseteq CallsTo(n, event)
          /\ slots[a] = << 2 >>
          /\ slots[n] = << 1 >>

-----------------------------------------------------------------------------
\* C23: the delivery state of a single-slot delegate is reset when an event
\* starts: the first dispatch of an event that calls a single-slot delegate
\* registered without ALLOW_OVERWRITE is accepted by it, whatever the
\* delegate received in the events before.
C23_SlotResetEachEvent ==
    \A id \in SingleSlots("NONE") :
        \A i \in DOMAIN dispatched :
            i = Min(CallsTo(id, dispatched[i].event) \cup {i}) =>
                ~(dispatched[i].failed /\ Last(dispatched[i].invoked).id = id)

-----------------------------------------------------------------------------
\* The delegates registered before the i-th dispatch whose type and scope
\* make them receivers of its message.
ReceiversOf(i) ==
    {id \in 1..dispatched[i].nregistered :
        /\ registered[id].type = dispatched[i].message.type
        /\ registered[id].scope \in {"", dispatched[i].message.scope}}

\* C25: once the delegates of a module have been removed from the Messenger,
\* no later dispatch invokes one of them, and every later dispatch still
\* invokes the receivers of its message that were not removed.
C25_RemovedNeverInvoked ==
    \A i \in DOMAIN dispatched :
        /\ InvokedBy(i) \cap dispatched[i].removed = {}
        /\ ~dispatched[i].failed =>
               ReceiversOf(i) \ dispatched[i].removed \subseteq InvokedBy(i)

\* A message was dispatched after the delegates of one module had been
\* removed: a removed delegate was a receiver of it and was not invoked, the
\* delegate of another module was.
C25_Witness ==
    /\ Len(dispatched) = 2
    /\ (ReceiversOf(1) \cap removed) \subseteq InvokedBy(1)
    /\ ReceiversOf(2) \cap dispatched[2].removed # {}
    /\ InvokedBy(2) # {}
    /\ dispatched[1].removed = {}
    /\ ReceiversOf(1) \cap removed # {}

-----------------------------------------------------------------------------
\* The delegates on the bus at the last hasReceiver call whose type and scope
\* make them receivers of the message asked about.
ReceiversAsked ==
    {id \in 1..has_receiver[1].nregistered :
        /\ registered[id].type = has_receiver[1].message.type
        /\ registered[id].scope \in {"", has_receiver[1].message.scope}}
        \ has_receiver[1].removed

\* C24: hasReceiver returns true exactly when a delegate matching the type
\* and the scope of the message is registered (false before the first such
\* registration, true from it on), and the call invokes no delegate and
\* changes no slot, no delegate list and no delivery record.
C24_HasReceiver ==
    /\ [](has_receiver # << >> => (has_receiver[1].result <=> ReceiversAsked # {}))
    /\ [][has_receiver' # has_receiver =>
              UNCHANGED << slots, delegates_, dispatched, registered, removed, exception, pc >>]_vars

\* hasReceiver returned true for a message that has one receiver among two
\* delegates, a single-slot delegate that holds the value of an earlier dispatch.
C24_Witness ==
    /\ has_receiver # << >>
    /\ has_receiver[1].result
    /\ Cardinality(ReceiversAsked) = 1
    /\ \A id \in ReceiversAsked : slots[id] # << >>
    /\ has_receiver[1].nregistered = 2
    /\ Len(dispatched) = 1

-----------------------------------------------------------------------------
\* The instance lost against a held entry: load produced it, has dealt with
\* it and did not insert it.
Discarded(m) ==
    /\ \E i \in DOMAIN produced : produced[i][2] = m
    /\ \A k \in DOMAIN mod_list : mod_list[k][2] # m
    /\ m \notin Range(inserted)

\* C26: an instance that load has torn down, by evicting it for a new
\* instance or by discarding it as the loser against a held one, has no
\* delegate left on the bus, so that no dispatch can invoke a delegate of it.
C26_NoDelegateOfTornDown ==
    \A m \in DOMAIN heap :
        (heap[m].destroyed \/ Discarded(m)) => DelegatesOf(delegates_, m) = {}

-----------------------------------------------------------------------------
\* C27: every dispatch invokes its delegates in the order in which they were
\* registered, those of the wildcard scope and those of the scope of the
\* message alike.
C27_RegistrationOrder ==
    \A i \in DOMAIN dispatched :
        \A k, l \in DOMAIN dispatched[i].invoked :
            k < l => dispatched[i].invoked[k].id < dispatched[i].invoked[l].id

-----------------------------------------------------------------------------
\* The delegates registered with bindMulti.
MultiSlots == {id \in DOMAIN registered : registered[id].kind = "multi"}

\* The values of the dispatches of event e that called the delegate, in the
\* order of the dispatches.
ValuesFor(id, e) ==
    SelectSeq([k \in DOMAIN dispatched |-> dispatched[k].value],
              LAMBDA v : v \in {dispatched[k].value : k \in CallsTo(id, e)})

\* C28: the sequence of a delegate registered with bindMulti holds exactly
\* the messages of the dispatches of the current event that called it, in
\* the order of the dispatches, and the delegate never makes a dispatch fail
\* with DoubleDeliveryError.
C28_MultiSlotHoldsEventMessages ==
    \A id \in MultiSlots :
        /\ slots[id] = ValuesFor(id, event)
        /\ \A i \in DOMAIN dispatched :
              dispatched[i].failed => Last(dispatched[i].invoked).id # id

-----------------------------------------------------------------------------
\* C29: main returns 0 when load, init, run and finalize have all completed
\* without an exception, every hook of every phase having been called; it
\* returns a non-zero code when any of them has thrown (1 for a
\* configuration, runtime or logic error, 127 for any other exception), and
\* then no hook was called after the throw.
C29_ExitStatus ==
    pc = "done" =>
        IF exception = NoError
        THEN /\ return_code = 0
             /\ Len(calls) = Len(modules_) * (2 + ConfiguredEvents)
             /\ \A i \in DOMAIN calls : calls[i].result = "ok"
        ELSE /\ return_code # 0
             /\ return_code = (IF exception.type = "std::exception" THEN 127 ELSE 1)
             /\ \A i \in DOMAIN calls : calls[i].result # "ok" => i = Len(calls)
             /\ exception.type \in LoadErrors => calls = << >>
             /\ exception.type \in HookErrors =>
                   calls # << >> /\ Last(calls).result = exception.type

\* main has returned 127 after the run hook of the second event threw an
\* exception that is none of the three error classes
C29_Witness ==
    /\ pc = "done"
    /\ return_code = 127
    /\ calls # << >>
    /\ Last(calls).phase = "run"
    /\ Last(calls).event = 1
    /\ Last(calls).result = "std::exception"

-----------------------------------------------------------------------------
\* C30: when an interrupt signal arrives while a hook is running, the hook
\* finishes, no hook is started after it, and the process goes to teardown:
\* in a process that has ended on a signal every hook that was started has
\* returned, and none was started after the one the signal arrived in.
C30_InterruptFinishesCall ==
    pc \in Interrupted =>
        /\ \A i \in DOMAIN calls : calls[i].result # "interrupted"
        /\ \A i \in DOMAIN calls : calls[i].result # "ok" => i = Len(calls)

-----------------------------------------------------------------------------
\* ------------------------------------------------------- the config reader
\* ConfigReader::add parses a stream line by line into the list of sections
\* conf_array_ and the index conf_map_ from lower-cased section names to the
\* positions of their sections in the list. Strings are sequences of
\* characters, positions count from 0 as in std::string.

\* The characters of a line: the punctuation add looks at, a lower-case and an
\* upper-case letter, a digit, the underscore and a blank.
Chars == {"[", "]", "a", "B", "1", "_", "=", "#", " ", "'"}

Lines == {<< >>} \cup SeqsUpTo(Chars, MaxLineLen)

isalpha(ch) == ch \in {"a", "b", "B"}
isalnum(ch) == isalpha(ch) \/ ch = "1"
tolower(ch) == IF ch = "B" THEN "b" ELSE ch

\* std::transform(name.begin(), name.end(), name.begin(), ::tolower)
ToLower(name) == [i \in DOMAIN name |-> tolower(name[i])]

\* allpix::trim: the string without the blanks at its ends
trim(str) ==
    LET keep == {i \in DOMAIN str : str[i] # " "}
    IN  IF keep = {} THEN << >> ELSE SubSeq(str, Min(keep), Max(keep))

\* line[idx]: the character at the position, the terminator at length()
At(str, idx) == IF idx < Len(str) THEN str[idx + 1] ELSE "NUL"

\* str.substr(from), for from <= str.length()
substr(str, from) == SubSeq(str, from + 1, Len(str))

\* std::string(str, from, len)
Sub(str, from, len) == SubSeq(str, from + 1, from + len)

\* str.find(ch): the first position of the character, npos when there is none
npos == 0 - 1
find(str, ch) ==
    LET at == {i \in DOMAIN str : str[i] = ch}
    IN  IF at = {} THEN npos ELSE Min(at) - 1

\* The loop over the name of a header line: idx stops at the first character
\* that is not alphanumeric, and in any case before the last character; the
\* loop does not run at all for a line of one or two characters.
HeaderIdx(str) ==
    Min({idx \in 1..(Len(str) - 2) : ~isalnum(At(str, idx))} \cup {Max({1, Len(str) - 1})})

\* The loop that cuts a comment from a value: a '#' outside quotes ends it.
RECURSIVE StripComment(_, _, _)
StripComment(value, i, last_quote) ==
    IF i >= Len(value)
    THEN value
    ELSE LET ch == At(value, i)
             quote == IF ch \in {"'"}
                      THEN (IF last_quote = "" THEN ch
                            ELSE IF last_quote = ch THEN "" ELSE last_quote)
                      ELSE last_quote
         IN  IF quote = "" /\ ch = "#"
             THEN Sub(value, 0, i)
             ELSE StripComment(value, i + 1, quote)

Parsed(kind, name, key, value) == [kind |-> kind, name |-> name, key |-> key, value |-> value]

\* What one iteration of the loop of add makes of the line it has read.
ParseLine(str) ==
    IF str = << >> \/ At(str, 0) = "#"
    THEN Parsed("skip", << >>, << >>, << >>)
    ELSE IF At(str, 0) = "["
    THEN LET idx == HeaderIdx(str)
         IN  IF idx + 1 > Len(str)
             THEN Parsed("std::out_of_range", << >>, << >>, << >>)
             ELSE LET remain == trim(substr(str, idx + 1))
                  IN  IF At(str, idx) = "]" /\ (remain = << >> \/ At(remain, 0) = "#")
                      THEN Parsed("header", Sub(str, 1, idx - 1), << >>, << >>)
                      ELSE Parsed("ConfigParseError", << >>, << >>, << >>)
    ELSE IF isalpha(At(str, 0))
    THEN LET equals_pos == find(str, "=")
         IN  IF equals_pos # npos
             THEN LET key == trim(Sub(str, 0, equals_pos))
                      value == StripComment(trim(substr(str, equals_pos + 1)), 0, "")
                      valid_key == \A i \in DOMAIN key : isalnum(key[i]) \/ key[i] = "_"
                  IN  IF ~valid_key \/ value = << >>
                      THEN Parsed("ConfigParseError", << >>, << >>, << >>)
                      ELSE Parsed("setting", << >>, key, trim(value))
             ELSE Parsed("ConfigParseError", << >>, << >>, << >>)
    ELSE Parsed("ConfigParseError", << >>, << >>, << >>)

\* Configuration(section_name, file_name): a section without settings
Configuration(section_name) == [name |-> section_name, settings |-> << >>]

\* Configuration::setText: the key holds the value, whatever it held before
setText(config, key, value) ==
    [config EXCEPT !.settings = [k \in DOMAIN config.settings \cup {key} |->
                                    IF k = key THEN value ELSE config.settings[k]]]

countSettings(config) == Cardinality(DOMAIN config.settings)

\* conf_map_[key].push_back(iter)
PushBack(map, key, iter) ==
    [k \in DOMAIN map \cup {key} |->
        IF k = key
        THEN Append(IF k \in DOMAIN map THEN map[k] ELSE << >>, iter)
        ELSE map[k]]

\* ConfigReader::addConfiguration: the iterators of conf_map_ are the
\* positions in the list conf_array_, which a push_back leaves valid.
addConfiguration(r, config) ==
    LET array == Append(r.conf_array_, config)
        section_name == ToLower(config.name)
    IN  [conf_array_ |-> array,
         conf_map_ |-> PushBack(r.conf_map_, section_name, Len(array))]

\* What the reader leaves alone.
managerVars == << geo, nsections, configs, return_code, sec, loadedLibraries_, unique,
                  mod_list, heap, modules_, id_to_module_, module_to_id_, delegates_,
                  produced, inserted, dlopen_calls, registered, dispatched, slots, removed,
                  has_receiver >>

\* ConfigReader(stream, file_name): the default constructor, then add up to
\* its loop, with the first, unnamed section.
BeginAdd ==
    /\ pc = "reader"
    /\ reader' = [conf_array_ |-> << >>, conf_map_ |-> << >>]
    /\ section_conf' = Configuration(<< >>)
    /\ line_num' = 0
    /\ pc' = "add"
    /\ UNCHANGED << line, seen, reader_copy, exception >>
    /\ UNCHANGED managerVars
    /\ UNCHANGED fieldVars
    /\ UNCHANGED bichselVars
    /\ UNCHANGED lifeVars

\* One iteration of the loop of add on a stream that is not at its end.
ReadLine(lines) ==
    /\ pc = "add"
    /\ line_num < MaxLines
    /\ \E str \in lines :
          LET parsed == ParseLine(str)
          IN  /\ line' = str
              /\ line_num' = line_num + 1
              /\ seen' = IF str = << >> \/ At(str, 0) = "#" THEN seen ELSE Append(seen, str)
              /\ CASE parsed.kind = "skip" ->
                        UNCHANGED << pc, exception, reader, section_conf >>
                   [] parsed.kind = "header" ->
                        /\ reader' = IF section_conf.name # << >> \/ countSettings(section_conf) > 0
                                     THEN addConfiguration(reader, section_conf)
                                     ELSE reader
                        /\ section_conf' = Configuration(parsed.name)
                        /\ UNCHANGED << pc, exception >>
                   [] parsed.kind = "setting" ->
                        /\ section_conf' = setText(section_conf, parsed.key, parsed.value)
                        /\ UNCHANGED << pc, exception, reader >>
                   [] OTHER ->
                        /\ Throw(parsed.kind, << line_num + 1 >>)
                        /\ UNCHANGED << reader, section_conf >>
    /\ UNCHANGED reader_copy
    /\ UNCHANGED managerVars
    /\ UNCHANGED fieldVars
    /\ UNCHANGED bichselVars
    /\ UNCHANGED lifeVars

AddLine == ReadLine(Lines)

\* stream.eof() after the last line: the section being filled is added.
EndOfStream ==
    /\ pc = "add"
    /\ line_num > 0
    /\ reader' = addConfiguration(reader, section_conf)
    /\ pc' = "parsed"
    /\ UNCHANGED << line, line_num, seen, section_conf, reader_copy, exception >>
    /\ UNCHANGED managerVars
    /\ UNCHANGED fieldVars
    /\ UNCHANGED bichselVars
    /\ UNCHANGED lifeVars

\* copy_init_map: conf_map_ is rebuilt from the copied list, under the
\* names as the sections have them.
copy_init_map(array) ==
    LET names == {array[i].name : i \in DOMAIN array}
    IN  [conf_array_ |-> array,
         conf_map_ |-> [name \in names |->
                          SelectSeq([i \in DOMAIN array |-> i],
                                    LAMBDA i : array[i].name = name)]]

\* hasConfiguration, countConfigurations and getConfigurations(name)
hasConfiguration(r, name) == ToLower(name) \in DOMAIN r.conf_map_

countConfigurations(r, name) ==
    IF ~hasConfiguration(r, ToLower(name)) THEN 0 ELSE Len(r.conf_map_[ToLower(name)])

getConfigurations(r, name) ==
    IF ~hasConfiguration(r, ToLower(name))
    THEN << >>
    ELSE [k \in DOMAIN r.conf_map_[ToLower(name)] |->
             r.conf_array_[r.conf_map_[ToLower(name)][k]]]

\* ConfigReader(const ConfigReader& other), and operator= alike: the list is
\* copied and the map rebuilt.
CopyReader ==
    /\ pc = "parsed"
    /\ reader_copy = << >>
    /\ reader_copy' = copy_init_map(reader.conf_array_)
    /\ UNCHANGED << line, line_num, seen, section_conf, reader, pc, exception >>
    /\ UNCHANGED managerVars
    /\ UNCHANGED fieldVars
    /\ UNCHANGED bichselVars
    /\ UNCHANGED lifeVars

NextReader ==
    \/ BeginAdd
    \/ AddLine
    \/ EndOfStream
    \/ CopyReader

InitReader ==
    /\ geo = << >>
    /\ nsections = 0
    /\ pc = "reader"
    /\ InitCommon

SpecReader == InitReader /\ [][NextReader]_vars

-----------------------------------------------------------------------------
\* --------------------------------------------------------- the field files
\* FieldWriter writes a FieldData to a file in the INIT text format or in the
\* binary APF format; FieldParser reads it back and caches what it has read.
\* An INIT file is its header line and the whitespace-separated tokens after
\* it. Field values are written with the default (empty) units. The record of
\* a file also keeps, as history, the FieldData it was written from and the
\* number of changes made to it since.

\* size_t, scaled down from 64 to 16 bits: the wrap of an unsigned decrement
\* and of the offset arithmetic is kept, the numbers stay small.
SizeBits == 16
SizeMod == 2 ^ SizeBits

FileNames == {"f", "g"}
FileTypes == {"INIT", "APF", "UNKNOWN"}

\* FieldQuantity::SCALAR and FieldQuantity::VECTOR
Quantities == {1, 3}

Num(k) == [num |-> TRUE, text |-> "", value |-> k]
Word(str) == [num |-> FALSE, text |-> str, value |-> 0]

\* A length in the internal units: n micrometres.
Um(n) == [n |-> n, unit |-> "um"]

\* Units::convert(value, "um") and Units::get(number, "um")
UnitsConvert(value) == value.n
UnitsGet(number) == Um(number)

FieldData(header, dimensions, size, data) ==
    [header |-> header, dimensions |-> dimensions, size |-> size, data |-> data]

\* Grids of at least one point in each direction.
Dimensions ==
    {d \in (1..MaxDim) \X (1..MaxDim) \X (1..MaxDim) : d[1] * d[2] * d[3] <= MaxVertices}

\* The fields handed to the writer: every entry of the data vector holds a
\* value of its own; the vector has the size of the grid, or one entry more.
FieldDatas(N) ==
    {FieldData("H", d, << Um(1), Um(2), Um(3) >>, [k \in 1..(N * d[1] * d[2] * d[3] + extra) |-> k]) :
        d \in Dimensions, extra \in {0, 1}}

\* The three nested loops of write_init_file: the line of the point-th field
\* point in the order of the loops, x outermost.
PointLine(field_data, N, point) ==
    LET dimensions == field_data.dimensions
        xind == point \div (dimensions[2] * dimensions[3])
        yind == (point \div dimensions[3]) % dimensions[2]
        zind == point % dimensions[3]
    IN  << Num(xind + 1), Num(yind + 1), Num(zind + 1) >> \o
        [j \in 1..N |->
            Num(field_data.data[xind * dimensions[2] * dimensions[3] * N +
                                yind * dimensions[3] * N + zind * N + (j - 1) + 1])]

\* Number of tokens between the header line and the data block.
HeaderTokens == 19

\* write_init_file: the header line and the tokens written after it
write_init_file(field_data, N) ==
    LET size == field_data.size
        dimensions == field_data.dimensions
    IN  [type |-> "INIT",
         header |-> field_data.header,
         tokens |-> << Word("##SEED##"), Word("##EVENTS##"),
                       Word("##TURN##"), Word("##TILT##"), Num(1),
                       Num(0), Num(0), Num(0),
                       Num(UnitsConvert(size[3])), Num(UnitsConvert(size[1])),
                       Num(UnitsConvert(size[2])),
                       Num(0), Num(0), Num(0), Num(0),
                       Num(dimensions[1]), Num(dimensions[2]), Num(dimensions[3]),
                       Num(0) >> \o
                    Flatten([p \in 1..(dimensions[1] * dimensions[2] * dimensions[3]) |->
                                PointLine(field_data, N, p - 1)]),
         field_data |-> << >>,
         written |-> field_data,
         edits |-> 0]

\* write_apf_file: the archive holds the FieldData as it is
write_apf_file(field_data) ==
    [type |-> "APF", header |-> "", tokens |-> << >>, field_data |-> field_data,
     written |-> field_data, edits |-> 0]

\* What the field tools leave alone.
otherVars == << managerVars, lifeVars, readerVars, bichselVars >>

\* FieldParser(quantity) and FieldWriter(quantity) for the same quantity, in a
\* build whose integer division by zero traps or does not.
ConstructTools ==
    /\ pc = "tools"
    /\ N_' \in Quantities
    /\ div_traps' \in BOOLEAN
    /\ pc' = "field"
    /\ UNCHANGED << files, field_map_, parse_init, stream, parse_log, exception >>
    /\ UNCHANGED otherVars

\* FieldWriter::write_file
WriteFile ==
    /\ pc = "field"
    /\ Cardinality(DOMAIN files) < MaxWrites
    /\ \E field_data \in FieldDatas(N_), file_name \in FileNames, file_type \in FileTypes :
          LET dimensions == field_data.dimensions
          IN  IF Len(field_data.data) # N_ * dimensions[1] * dimensions[2] * dimensions[3]
              THEN /\ Throw("std::runtime_error", "invalid field dimensions")
                   /\ UNCHANGED files
              ELSE CASE file_type = "INIT" ->
                          /\ files' = [n \in DOMAIN files \cup {file_name} |->
                                          IF n = file_name
                                          THEN write_init_file(field_data, N_)
                                          ELSE files[n]]
                          /\ UNCHANGED << pc, exception >>
                     [] file_type = "APF" ->
                          /\ files' = [n \in DOMAIN files \cup {file_name} |->
                                          IF n = file_name
                                          THEN write_apf_file(field_data)
                                          ELSE files[n]]
                          /\ UNCHANGED << pc, exception >>
                     [] OTHER ->
                          /\ Throw("std::runtime_error", "unknown file format")
                          /\ UNCHANGED files
    /\ UNCHANGED << N_, div_traps, field_map_, parse_init, stream, parse_log >>
    /\ UNCHANGED otherVars

\* Another tool changes the index triple of one field point of an INIT file.
EditFile ==
    /\ pc = "field"
    /\ \E file_name \in DOMAIN files :
          LET file == files[file_name]
              points == (Len(file.tokens) - HeaderTokens) \div (3 + N_)
          IN  /\ file.type = "INIT"
              /\ file.edits < MaxEdits
              /\ \E p \in 1..points, ind \in (0..(MaxDim + 1)) \X (0..(MaxDim + 1)) \X (0..(MaxDim + 1)) :
                    LET at == HeaderTokens + (p - 1) * (3 + N_)
                    IN  files' = [files EXCEPT ![file_name] =
                                    [file EXCEPT !.edits = file.edits + 1,
                                                 !.tokens = [k \in DOMAIN file.tokens |->
                                                                IF k \in (at + 1)..(at + 3)
                                                                THEN Num(ind[k - at])
                                                                ELSE file.tokens[k]]]]
    /\ UNCHANGED << N_, div_traps, field_map_, parse_init, stream, parse_log, pc, exception >>
    /\ UNCHANGED otherVars

\* std::ifstream file(file_name): the tokens of an INIT file; nothing to
\* read from a file that does not exist or that holds a binary archive.
Open(file_name) ==
    IF file_name \in DOMAIN files /\ files[file_name].type = "INIT"
    THEN [header |-> files[file_name].header, tokens |-> files[file_name].tokens,
          fail |-> FALSE, eof |-> FALSE]
    ELSE [header |-> "", tokens |-> << >>, fail |-> TRUE, eof |-> TRUE]

\* file >> a >> b >> ...: n tokens are taken from the stream; the stream
\* fails when it ends before or when a token that has to be a number is not.
Extract(st, n, numbers) ==
    IF st.fail \/ Len(st.tokens) < n
    THEN [st EXCEPT !.tokens = << >>, !.fail = TRUE, !.eof = st.eof \/ Len(st.tokens) < n]
    ELSE [st EXCEPT !.tokens = SubSeq(st.tokens, n + 1, Len(st.tokens)),
                    !.fail = \E k \in numbers : ~st.tokens[k].num]

\* The value read by the k-th extraction, 0 from a stream that has failed.
Value(st, k) == IF ~st.fail /\ k <= Len(st.tokens) /\ st.tokens[k].num THEN st.tokens[k].value ELSE 0

\* The cache entry of the file.
Cached(map, file_name, field_data) ==
    [n \in DOMAIN map \cup {file_name} |-> IF n = file_name THEN field_data ELSE map[n]]

\* Variant: what is parsed is returned without being kept.
NotCached(map, file_name, field_data) == map

Returned(file_name, file_type, cached, field_data) ==
    [file_name |-> file_name, file_type |-> file_type, cached |-> cached,
     field_data |-> field_data]

\* parse_apf_file: the archive is read and checked against N_; the result is
\* returned, field_map_ is not written.
parse_apf_file(file_name, file_type) ==
    IF file_name \notin DOMAIN files \/ files[file_name].type # "APF"
    THEN /\ Throw("cereal::Exception", "failed to read from input stream")
         /\ UNCHANGED parse_log
    ELSE LET field_data == files[file_name].field_data
             dimensions == field_data.dimensions
         IN  IF Len(field_data.data) # dimensions[1] * dimensions[2] * dimensions[3] * N_
             THEN /\ Throw("std::runtime_error", "invalid data")
                  /\ UNCHANGED parse_log
             ELSE /\ parse_log' = Append(parse_log,
                                         Returned(file_name, file_type, FALSE, field_data))
                  /\ UNCHANGED << pc, exception >>

\* parse_init_file up to its loop: the header line and the 19 tokens of the
\* header are read, file.fail() is tested once, the vector is allocated.
parse_init_header(file_name, file_type) ==
    LET file == Open(file_name)
        after == Extract(file, HeaderTokens, {9, 10, 11, 16, 17, 18})
        thickness == UnitsGet(Value(file, 9))
        xpixsz == UnitsGet(Value(file, 10))
        ypixsz == UnitsGet(Value(file, 11))
        xsize == Value(file, 16)
        ysize == Value(file, 17)
        zsize == Value(file, 18)
        vertices == xsize * ysize * zsize
    IN  IF after.fail
        THEN /\ Throw("std::runtime_error", "invalid data or unexpected end of file")
             /\ UNCHANGED << parse_init, stream >>
        ELSE /\ stream' = after
             /\ parse_init' = [file_name |-> file_name, file_type |-> file_type,
                               header |-> file.header,
                               thickness |-> thickness, xpixsz |-> xpixsz, ypixsz |-> ypixsz,
                               xsize |-> xsize, ysize |-> ysize, zsize |-> zsize,
                               vertices |-> vertices,
                               field |-> [k \in 1..(vertices * N_) |-> 0],
                               i |-> 0,
                               ind |-> << >>, offsets |-> << >>]
             /\ pc' = "parse_init"
             /\ UNCHANGED exception

\* FieldParser::get_by_file_name
GetByFileName ==
    /\ pc = "field"
    /\ Len(parse_log) < MaxGets
    /\ \E file_name \in FileNames, file_type \in FileTypes :
          IF file_name \in DOMAIN field_map_
          THEN /\ parse_log' = Append(parse_log, Returned(file_name, file_type, TRUE,
                                                          field_map_[file_name]))
               /\ UNCHANGED << pc, exception, parse_init, stream >>
          ELSE CASE file_type = "INIT" ->
                      /\ parse_init_header(file_name, file_type)
                      /\ UNCHANGED parse_log
                 [] file_type = "APF" ->
                      /\ parse_apf_file(file_name, file_type)
                      /\ UNCHANGED << parse_init, stream >>
                 [] OTHER ->
                      /\ Throw("std::runtime_error", "unknown file format")
                      /\ UNCHANGED << parse_init, stream, parse_log >>
    /\ UNCHANGED << files, N_, div_traps, field_map_ >>
    /\ UNCHANGED otherVars

\* The test of the index triple of a field point against the grid.
Rejected(xind, yind, zind, xsize, ysize, zsize) == xind > xsize \/ yind > ysize \/ zind > zsize

\* Variant: an index of 0 is rejected as well.
RejectedFrom1(xind, yind, zind, xsize, ysize, zsize) ==
    \/ xind > xsize \/ yind > ysize \/ zind > zsize
    \/ xind < 1 \/ yind < 1 \/ zind < 1

\* xind--: the unsigned decrement
Decrement(ind) == (ind + SizeMod - 1) % SizeMod

\* xind * ysize * zsize * N_ + yind * zsize * N_ + zind * N_ + j
Offset(xind, yind, zind, j, ysize, zsize, N) ==
    (xind * ysize * zsize * N + yind * zsize * N + zind * N + j) % SizeMod

\* The stores of the inner loop: the j-th value of the point goes to its
\* offset when that lies in the vector.
RECURSIVE Store(_, _, _, _)
Store(field, offsets, values, j) ==
    IF j > Len(offsets)
    THEN field
    ELSE Store(IF offsets[j] < Len(field)
               THEN [field EXCEPT ![offsets[j] + 1] = values[j]]
               ELSE field,
               offsets, values, j + 1)

\* One iteration of the loop of parse_init_file over the field points.
\* i % (vertices / 100) divides by zero for a grid of fewer than 100 points:
\* the process is killed where the division traps. A store outside the
\* vector either kills the process or goes unnoticed.
ReadPoint ==
    /\ pc = "parse_init"
    /\ parse_init.i < parse_init.vertices
    /\ LET l == parse_init
           inds == Extract(stream, 3, {1, 2, 3})
           xind == Value(stream, 1)
           yind == Value(stream, 2)
           zind == Value(stream, 3)
           vals == Extract(inds, N_, 1..N_)
           offsets == [j \in 1..N_ |->
                          Offset(Decrement(xind), Decrement(yind), Decrement(zind), j - 1,
                                 l.ysize, l.zsize, N_)]
           values == [j \in 1..N_ |-> Value(inds, j)]
       IN  IF l.vertices \div 100 = 0 /\ div_traps
           THEN /\ pc' = "SIGFPE"
                /\ UNCHANGED << parse_init, stream, exception >>
           ELSE IF stream.eof
           THEN /\ Throw("std::runtime_error", "unexpected end of file")
                /\ UNCHANGED << parse_init, stream >>
           ELSE IF inds.fail \/ Rejected(xind, yind, zind, l.xsize, l.ysize, l.zsize)
           THEN /\ Throw("std::runtime_error", "invalid data")
                /\ stream' = inds
                /\ parse_init' = [l EXCEPT !.ind = << xind, yind, zind >>, !.offsets = << >>]
           ELSE /\ stream' = vals
                /\ parse_init' = [l EXCEPT !.ind = << xind, yind, zind >>,
                                           !.offsets = offsets,
                                           !.field = Store(l.field, offsets, values, 1),
                                           !.i = l.i + 1]
                /\ IF \E j \in 1..N_ : offsets[j] >= Len(l.field)
                   THEN \E outcome \in {"SIGSEGV", "parse_init"} :
                           /\ pc' = outcome
                           /\ UNCHANGED exception
                   ELSE UNCHANGED << pc, exception >>
    /\ UNCHANGED << files, N_, div_traps, field_map_, parse_log >>
    /\ UNCHANGED otherVars

\* The loop is over: the FieldData is built, kept in field_map_ and returned;
\* the locals and the stream go out of scope.
ParseReturn ==
    /\ pc = "parse_init"
    /\ parse_init.i = parse_init.vertices
    /\ LET l == parse_init
           field_data == FieldData(l.header, << l.xsize, l.ysize, l.zsize >>,
                                   << l.xpixsz, l.ypixsz, l.thickness >>, l.field)
       IN  /\ field_map_' = Cached(field_map_, l.file_name, field_data)
           /\ parse_log' = Append(parse_log, Returned(l.file_name, l.file_type, FALSE, field_data))
    /\ parse_init' = << >>
    /\ stream' = << >>
    /\ pc' = "field"
    /\ UNCHANGED << files, N_, div_traps, exception >>
    /\ UNCHANGED otherVars

NextField ==
    \/ ConstructTools
    \/ WriteFile
    \/ EditFile
    \/ GetByFileName
    \/ ReadPoint
    \/ ParseReturn

InitField ==
    /\ geo = << >>
    /\ nsections = 0
    /\ pc = "tools"
    /\ InitCommon

SpecField == InitField /\ [][NextField]_vars

\* ------------------------------------------------- DepositionBichselModule
\* Energies are whole multiples of the delta energy cut; a particle whose
\* energy reaches 0 is absorbed.
MaxEnergy == 2
MaxDeltas == 1
MaxParticles == 3
MaxScatters == 1
MaxSteppings == 2

\* The particle types the configuration selects from.
ParticleTypes == {"PION", "ELECTRON"}

\* The parent id of a particle constructed without one.
NoParent == 0 - 1

\* A particle nobody made, in no stepping yet.
NoTrace == [serial |-> 0, maker |-> 0, left |-> ""]

\* Particle(energy, pos, dir, type, time, parent). trace is history: the
\* number of the particle within its stepping call, the number of the particle
\* during whose stepping it was generated, the detector it left.
Particle(energy, type, parent, trace) ==
    [E |-> energy, type |-> type, parent |-> parent, trace |-> trace]

\* Cluster(eh_pairs, pos, particle_id, time). maker is history: the number of
\* the particle that deposited it.
Cluster(eh_pairs, particle_id, maker) ==
    [ehpairs |-> eh_pairs, particleID |-> particle_id, maker |-> maker]

\* MCParticle(...): the type, and the history of the particle it stores.
MCParticle(p) == [type |-> p.type, trace |-> p.trace]

\* Variant: the reference is the number of MCParticles after this one.
NextID(mcs) == Len(mcs) + 1

\* mcparticles.size(), the reference stepping hands to deltas and clusters.
CurrentID(mcs) == Len(mcs)

RECURSIVE SumE(_)
SumE(energies) == IF energies = << >> THEN 0 ELSE Head(energies) + SumE(Tail(energies))

\* The deltas one collision of energy energy_gamma can put in the FIFO.
Deltas(energy_gamma) ==
    {d \in {<< >>} \cup SeqsUpTo(1..energy_gamma, MaxDeltas) : SumE(d) <= energy_gamma}

\* What the module leaves alone.
restVars == << managerVars, lifeVars, readerVars, fieldVars >>

\* The constructor reads particle_type from the configuration.
ConstructBichsel ==
    /\ pc = "bichsel"
    /\ \E type \in ParticleTypes : particle_type_' = type
    /\ pc' = "run"
    /\ UNCHANGED << exception, particle_energy, global_particles, detector, incoming, particle,
                    nscat, mcparticles, mcparticles_parent_id, clusters, outgoing, taken,
                    steppings, deposits >>
    /\ UNCHANGED restVars

\* run, up to its loop: the source particle.
Shoot ==
    /\ pc = "run"
    /\ \E energy \in 1..MaxEnergy :
        /\ particle_energy' = energy
        /\ global_particles' = << Particle(energy, particle_type_, NoParent, NoTrace) >>
    /\ pc' = "particles"
    /\ UNCHANGED << exception, particle_type_, detector, incoming, particle, nscat, mcparticles,
                    mcparticles_parent_id, clusters, outgoing, taken, steppings, deposits >>
    /\ UNCHANGED restVars

\* One pass of run's loop up to the call of stepping, and the locals stepping
\* starts with: the closest detector the particle enters, if any.
NextParticle ==
    /\ pc = "particles"
    /\ global_particles # << >>
    /\ global_particles' = Tail(global_particles)
    /\ \E det \in {"nullptr"} \cup {geo[i].name : i \in 1..Len(geo)} :
        IF det = "nullptr"
        THEN /\ UNCHANGED << pc, detector, incoming, nscat, mcparticles, mcparticles_parent_id,
                             clusters, outgoing, taken, steppings >>
        ELSE /\ Len(steppings) < MaxSteppings
             /\ detector' = det
             /\ LET primary == Particle(particle_energy, particle_type_, NoParent,
                                        [serial |-> 1, maker |-> 0, left |-> ""])
                IN  /\ incoming' = << primary >>
                    /\ steppings' = Append(steppings,
                                           [detector |-> det, found |-> Head(global_particles),
                                            primary |-> primary])
             /\ nscat' = 0
             /\ mcparticles' = << >>
             /\ mcparticles_parent_id' = << >>
             /\ clusters' = << >>
             /\ outgoing' = << >>
             /\ taken' = << >>
             /\ pc' = "stepping"
    /\ UNCHANGED << exception, particle_energy, particle_type_, particle, deposits >>
    /\ UNCHANGED restVars

\* stepping: the next particle of the FIFO.
TakeParticle ==
    /\ pc = "stepping"
    /\ incoming # << >>
    /\ particle' = Head(incoming)
    /\ incoming' = Tail(incoming)
    /\ taken' = Append(taken, Head(incoming).trace.serial)
    /\ pc' = "steps"
    /\ UNCHANGED << exception, particle_energy, particle_type_, global_particles, detector, nscat,
                    mcparticles, mcparticles_parent_id, clusters, outgoing, steppings, deposits >>
    /\ UNCHANGED restVars

\* After the steps of a particle: its MCParticle and its parent id.
StoreMCParticle(p) ==
    /\ mcparticles' = Append(mcparticles, MCParticle(p))
    /\ mcparticles_parent_id' = Append(mcparticles_parent_id, p.parent)
    /\ particle' = << >>
    /\ pc' = "stepping"

\* A step that ends outside the sensor.
LeaveSensor ==
    /\ pc = "steps"
    /\ outgoing' = Append(outgoing, Particle(particle.E, particle.type, NoParent, NoTrace))
    /\ StoreMCParticle(particle)
    /\ UNCHANGED << exception, particle_energy, particle_type_, global_particles, detector,
                    incoming, nscat, clusters, taken, steppings, deposits >>
    /\ UNCHANGED restVars

\* A step that ends in an ionization: the energy lost, the deltas above the
\* cut, the cluster of the pairs below it.
InelasticStep ==
    /\ pc = "steps"
    /\ \E energy_gamma \in 1..particle.E, neh \in 0..1 :
        \E deltas \in Deltas(energy_gamma) :
            LET id == CurrentID(mcparticles)
                made == Len(taken) + Len(incoming)
                after == [particle EXCEPT !.E = particle.E - energy_gamma]
            IN  /\ made + Len(deltas) <= MaxParticles
                /\ incoming' = incoming \o
                        [k \in 1..Len(deltas) |->
                            Particle(deltas[k], "ELECTRON", id,
                                     [serial |-> made + k, maker |-> particle.trace.serial,
                                      left |-> ""])]
                /\ clusters' = IF neh > 0
                               THEN Append(clusters, Cluster(neh, id, particle.trace.serial))
                               ELSE clusters
                /\ IF after.E = 0
                   THEN StoreMCParticle(after)
                   ELSE /\ particle' = after
                        /\ UNCHANGED << pc, mcparticles, mcparticles_parent_id >>
    /\ UNCHANGED << exception, particle_energy, particle_type_, global_particles, detector,
                    nscat, outgoing, taken, steppings, deposits >>
    /\ UNCHANGED restVars

\* A step that ends in an elastic scattering.
ElasticStep ==
    /\ pc = "steps"
    /\ nscat < MaxScatters
    /\ nscat' = nscat + 1
    /\ UNCHANGED << pc, exception, particle_energy, particle_type_, global_particles, detector,
                    incoming, particle, mcparticles, mcparticles_parent_id, clusters, outgoing,
                    taken, steppings, deposits >>
    /\ UNCHANGED restVars

\* mcparticles.at(id)
InRange(mcs, id) == id >= 0 /\ id < Len(mcs)

\* The charges of the clusters, two per cluster.
Charges(cls) ==
    [k \in 1..2 * Len(cls) |->
        [type |-> IF k % 2 = 1 THEN "ELECTRON" ELSE "HOLE",
         charge |-> cls[(k + 1) \div 2].ehpairs,
         mcparticle |-> cls[(k + 1) \div 2].particleID]]

\* stepping after its loop, and the rest of run's pass: the parents are linked,
\* the charges generated, the two messages dispatched, the particles that left
\* put back with the particles to follow.
EndStepping ==
    /\ pc = "stepping"
    /\ incoming = << >>
    /\ IF \/ \E i \in 1..Len(mcparticles) :
                /\ mcparticles_parent_id[i] >= 0
                /\ ~InRange(mcparticles, mcparticles_parent_id[i])
          \/ \E k \in 1..Len(clusters) : ~InRange(mcparticles, clusters[k].particleID)
       THEN /\ Throw("std::out_of_range", "vector::_M_range_check")
            /\ UNCHANGED << global_particles, deposits >>
       ELSE /\ deposits' = Append(deposits,
                    [detector |-> detector,
                     mcparticles |-> [i \in 1..Len(mcparticles) |->
                                        [type |-> mcparticles[i].type,
                                         parent |-> mcparticles_parent_id[i]]],
                     charges |-> Charges(clusters)])
            /\ global_particles' = global_particles \o
                    [k \in 1..Len(outgoing) |->
                        Particle(outgoing[k].E, outgoing[k].type, NoParent,
                                 [serial |-> 0, maker |-> 0, left |-> detector])]
            /\ pc' = "particles"
            /\ UNCHANGED exception
    /\ UNCHANGED << particle_energy, particle_type_, detector, incoming, particle, nscat,
                    mcparticles, mcparticles_parent_id, clusters, outgoing, taken, steppings >>
    /\ UNCHANGED restVars

\* run returns: no particle hits any detector any more.
RunReturn ==
    /\ pc = "particles"
    /\ global_particles = << >>
    /\ pc' = "deposited"
    /\ UNCHANGED << exception, bichselVars >>
    /\ UNCHANGED restVars

NextBichsel ==
    \/ ConstructBichsel
    \/ Shoot
    \/ NextParticle
    \/ TakeParticle
    \/ LeaveSensor
    \/ InelasticStep
    \/ ElasticStep
    \/ EndStepping
    \/ RunReturn

InitBichsel ==
    /\ geo \in Geometries
    /\ nsections = 0
    /\ pc = "bichsel"
    /\ InitCommon

SpecBichsel == InitBichsel /\ [][NextBichsel]_vars

-----------------------------------------------------------------------------
\* The lines of a configuration file: a comment, a section header with an
\* alphanumeric name that only a comment may follow, a key with a value.
IsComment(str) == str # << >> /\ str[1] = "#"

IsHeader(str) ==
    \E n \in 1..(Len(str) - 2) :
        /\ str[1] = "["
        /\ \A i \in 2..(n + 1) : isalnum(str[i])
        /\ str[n + 2] = "]"
        /\ LET rest == trim(SubSeq(str, n + 3, Len(str)))
           IN  rest = << >> \/ rest[1] = "#"

IsPair(str) ==
    \E e \in DOMAIN str :
        /\ str[e] = "="
        /\ \A i \in 1..(e - 1) : str[i] # "="
        /\ LET key == trim(SubSeq(str, 1, e - 1))
               value == StripComment(trim(SubSeq(str, e + 1, Len(str))), 0, "")
           IN  /\ key # << >>
               /\ \A i \in DOMAIN key : isalnum(key[i]) \/ key[i] = "_"
               /\ value # << >>

IsErrorLine(str) == str # << >> /\ ~IsComment(str) /\ ~IsHeader(str) /\ ~IsPair(str)

\* C31: add fails with ConfigParseError on every line that is an error: when
\* the line add has read last is not empty, not a comment, not a section
\* header and not a key with a value, add has thrown ConfigParseError.
C31_ErrorLineRejected ==
    (line_num > 0 /\ IsErrorLine(line)) => exception.type = "ConfigParseError"

-----------------------------------------------------------------------------
\* C32: the parser caches what it reads: when get_by_file_name has returned
\* for a file name, for an INIT or an APF file, every later call with that
\* file name returns the same FieldData from the cache, without parsing.
C32_SecondCallCached ==
    \A i \in DOMAIN parse_log, j \in DOMAIN parse_log :
        (i < j /\ parse_log[i].file_name = parse_log[j].file_name) =>
            /\ parse_log[j].cached
            /\ parse_log[j].field_data = parse_log[i].field_data

-----------------------------------------------------------------------------
\* C33: the three registry structures agree at every step: every instance of
\* the execution list has exactly one identifier in module_to_id_, every
\* identifier of id_to_module_ points at an instance of the list that has
\* this identifier in module_to_id_, the three have the same number of
\* entries, and no lookup of an identifier by init, run or finalize fails.
C33_RegistryAgrees ==
    /\ \A p \in DOMAIN modules_ :
          Cardinality({e \in module_to_id_ : e[1] = modules_[p]}) = 1
    /\ \A p \in DOMAIN modules_, q \in DOMAIN modules_ : modules_[p] = modules_[q] => p = q
    /\ \A e \in id_to_module_ :
          /\ e[2] \in Range(modules_)
          /\ << e[2], e[1] >> \in module_to_id_
    /\ Cardinality(id_to_module_) = Len(modules_)
    /\ Cardinality(module_to_id_) = Len(modules_)
    /\ exception.what # "out_of_range"

\* an instance was evicted during load, and the instance that replaced it
\* has been through init, run and finalize
C33_Witness ==
    /\ pc = "done"
    /\ exception = NoError
    /\ \E m \in DOMAIN heap : heap[m].destroyed
    /\ \E i \in DOMAIN calls : calls[i].phase = "finalize"

-----------------------------------------------------------------------------
\* The instances a step of load destroys.
Evicted == {m \in DOMAIN heap : ~heap[m].destroyed /\ heap'[m].destroyed}

\* C34: a step of load that evicts an instance places the new instance last
\* in the execution order, and the other instances keep their relative order:
\* the list after the step is the list before it without the evicted instance,
\* followed by the new one.
C34_EvictionAppends ==
    [][Evicted # {} =>
          modules_' = Append(SelectSeq(modules_, LAMBDA m : m \notin Evicted),
                             Head(mod_list)[2])]_vars

\* the first instance inserted was evicted by the third one, which now runs
\* after the second, not in the place of the first
C34_Witness ==
    /\ Len(inserted) = 3
    /\ heap[inserted[1]].destroyed
    /\ SameKey(IdOf(inserted[1]), IdOf(inserted[3]))
    /\ modules_ = << inserted[2], inserted[3] >>

-----------------------------------------------------------------------------
\* The name between the brackets of a header line.
HeaderName(str) == SubSeq(str, 2, Min({i \in DOMAIN str : str[i] = "]"}) - 1)

\* The header lines of the stream, and the lines before the first of them.
Headers == SelectSeq(seen, IsHeader)
BeforeHeaders ==
    LET at == {i \in DOMAIN seen : IsHeader(seen[i])}
    IN  IF at = {} THEN seen ELSE SubSeq(seen, 1, Min(at) - 1)

\* C35: after add on a well-formed stream getConfigurations() returns one
\* configuration per section header, in the order of the headers and also
\* for sections without keys, preceded by the unnamed section only when
\* that holds a setting.
C35_OneSectionPerHeader ==
    (pc = "parsed" /\ \A i \in DOMAIN seen : ~IsErrorLine(seen[i])) =>
        [i \in DOMAIN reader.conf_array_ |-> reader.conf_array_[i].name] =
            (IF BeforeHeaders # << >> THEN << << >> >> ELSE << >>) \o
            [i \in DOMAIN Headers |-> HeaderName(Headers[i])]

-----------------------------------------------------------------------------
\* The section names a caller asks for: empty, or up to two letters or digits.
AskedNames == {<< >>} \cup SeqsUpTo({"a", "b", "B", "1"}, 2)

\* C36: a copy of a reader answers as the original: hasConfiguration,
\* countConfigurations and getConfigurations(name) give the same in both for
\* every name, and in both the case of the letters of the name is ignored.
C36_CopyAnswersAlike ==
    reader_copy # << >> =>
        \A name \in AskedNames :
            /\ hasConfiguration(reader_copy, name) = hasConfiguration(reader, name)
            /\ countConfigurations(reader_copy, name) = countConfigurations(reader, name)
            /\ getConfigurations(reader_copy, name) = getConfigurations(reader, name)
            /\ hasConfiguration(reader_copy, name) = hasConfiguration(reader_copy, ToLower(name))
            /\ hasConfiguration(reader, name) = hasConfiguration(reader, ToLower(name))

-----------------------------------------------------------------------------
\* C37: parse_init_file rejects every index triple with a component outside
\* 1..size of its dimension: the triple of every field point it has accepted
\* lies in the grid, and the offsets computed for it lie in the vector.
C37_IndexInGrid ==
    (pc \in {"parse_init", "SIGSEGV"} /\ parse_init.offsets # << >>) =>
        /\ parse_init.ind[1] \in 1..parse_init.xsize
        /\ parse_init.ind[2] \in 1..parse_init.ysize
        /\ parse_init.ind[3] \in 1..parse_init.zsize
        /\ \A j \in DOMAIN parse_init.offsets :
              parse_init.offsets[j] < parse_init.vertices * N_

-----------------------------------------------------------------------------
\* The INIT files that are as FieldWriter wrote them.
AsWritten(file_name) ==
    /\ file_name \in DOMAIN files
    /\ files[file_name].type = "INIT"
    /\ files[file_name].edits = 0

\* C40: an INIT file written by write_file is read back by parse_init_file,
\* for the same N, to the same grid dimensions with every component of every
\* field point at the offset of the data vector it had before writing: the
\* read of such a file is not cut short, and what it returns has the
\* dimensions and the data vector of the FieldData written.
C40_InitRoundTrip ==
    /\ pc \in {"SIGFPE", "SIGSEGV", "catch"} /\ parse_init # << >> =>
          ~AsWritten(parse_init.file_name)
    /\ \A i \in DOMAIN parse_log :
          (AsWritten(parse_log[i].file_name) /\ parse_log[i].file_type = "INIT") =>
              /\ parse_log[i].field_data.dimensions = files[parse_log[i].file_name].written.dimensions
              /\ parse_log[i].field_data.data = files[parse_log[i].file_name].written.data

\* The index in mcparticles (from 0) of the MCParticle that stores the
\* particle numbered serial, for a particle that has been stored.
IndexOf(serial) ==
    (CHOOSE k \in 1..Len(mcparticles) : mcparticles[k].trace.serial = serial) - 1

Stored(serial) == \E k \in 1..Len(mcparticles) : mcparticles[k].trace.serial = serial

\* C38: in stepping every particle taken from the incoming queue yields exactly
\* one stored MCParticle, in processing order; the parent id of every secondary
\* is the index of the MCParticle of the particle during whose stepping it was
\* generated and is smaller than its own index; the particle id of every
\* cluster is the index of the MCParticle of the particle that deposited it;
\* so the lookups after the loop are never out of range.
C38_ParentsAndClustersInRange ==
    /\ exception.type # "std::out_of_range"
    /\ Len(mcparticles_parent_id) = Len(mcparticles)
    /\ Len(taken) = Len(mcparticles) + (IF particle = << >> THEN 0 ELSE 1)
    /\ \A k \in 1..Len(mcparticles) : mcparticles[k].trace.serial = taken[k]
    /\ \A k \in 1..Len(mcparticles) :
        mcparticles[k].trace.maker # 0 =>
            /\ mcparticles_parent_id[k] >= 0
            /\ mcparticles_parent_id[k] < k - 1
            /\ mcparticles_parent_id[k] = IndexOf(mcparticles[k].trace.maker)
    /\ \A k \in 1..Len(clusters) :
        /\ Stored(clusters[k].maker) => clusters[k].particleID = IndexOf(clusters[k].maker)
        /\ (pc = "stepping" /\ incoming = << >>) => InRange(mcparticles, clusters[k].particleID)

\* A stepping call has returned in which a delta made a delta of its own and
\* deposited a cluster.
C38_Witness ==
    /\ pc = "particles"
    /\ deposits # << >>
    /\ Len(mcparticles) >= 3
    /\ \E k \in 1..Len(mcparticles) : mcparticles_parent_id[k] = 1
    /\ \E k \in 1..Len(clusters) : clusters[k].particleID = 1

\* C39: in run every particle that leaves one detector and is found to enter
\* another one is stepped through it with the energy and the type it had when
\* it left the first.
C39_SteppedAsLeft ==
    \A i \in 1..Len(steppings) :
        (steppings[i].found.trace.left \notin {"", steppings[i].detector})
            => /\ steppings[i].primary.E = steppings[i].found.E
               /\ steppings[i].primary.type = steppings[i].found.type

====
